---- MODULE Spec2Model ----
(***************************************************************************)
(* Model of the price-and-rate resolution engine of the portfolio          *)
(* replicator: DollarRateService (src/app/services/dollar_rate.py) and     *)
(* ArbitrageDetector (src/app/services/arbitrage_detector.py).             *)
(*                                                                         *)
(* The services run on one asyncio event loop.  A coroutine is atomic     *)
(* between two real suspension points.  requests.get is a blocking call,   *)
(* so _get_dolarapi_ccl never yields; _get_ccl_al30 yields at its          *)
(* asyncio.gather.  Each action below is one such atomic stretch.          *)
(*                                                                         *)
(* Numbers: a rate is an exact fraction <<p, q>> (p / q) in lowest terms;  *)
(* comparisons are done by cross multiplication.                           *)
(***************************************************************************)
EXTENDS Integers, Sequences, FiniteSets, TLC

\* ---------------------------------------------------------------- bounds
MaxTime == 2
CacheTtl == 1
MaxPrice == 2

\* ------------------------------------------------------------- constants
None == "None"
\* the coroutines that can be in flight on the event loop at the same time
Tasks == {"t1", "t2"}
\* the coroutines of a larger gather: a third one next to the two above
Callers == Tasks \cup {"t3"}
Sessions == {"session"}
CclSources == {"dolarapi_ccl", "ccl_al30"}
AllSources == {"dolarapi_ccl", "ccl_al30", "dolarapi_mep"}
PreferredArgs == AllSources \cup {None}
\* an upstream HTTP answer: ok = FALSE is a connection/HTTP failure, v is
\* the "venta" / "ultimoPrecio" field (0 also stands for a missing field)
UpstreamValues == [ok : BOOLEAN, v : -1..MaxPrice]
Upstream == {u \in UpstreamValues : u.ok \/ u.v = 0}
\* an answer that carries no usable price
Invalid(resp) == ~resp.ok \/ resp.v <= 0

VARIABLES
    now,                \* datetime.now(), in TTL units
    iol_session,        \* DollarRateService.iol_session
    sources_status,     \* DollarRateService.sources_status
    preferred_ccl_source, \* DollarRateService.preferred_ccl_source
    cache,              \* DollarRateService._cache, per "ccl:<source>" key
    frame,              \* per task: the get_ccl_rate call in progress
    ret,                \* history: the get_ccl_rate call that has just returned
    detector,           \* ArbitrageDetector.iol_session and .mode
    dframe,             \* per task: the caller of get_ccl_rate in progress
                        \* (detect_single_arbitrage or a PriceFetcher operation)
    opp,                \* history: the detect_single_arbitrage call that has just returned
    price_fetcher,      \* PriceFetcher.iol_session and .mode
    variation_analyzer, \* VariationAnalyzer.iol_session and .mode
    iol_integration,    \* IOLIntegration.session and whether a container was passed
    fetched,            \* history: the PriceFetcher call that has just returned
    batch,              \* the detect_portfolio_arbitrages call in progress
    batch_out,          \* history: the detect_portfolio_arbitrages call that has just returned
    finnhub             \* InternationalPriceService: the rate limiter and its requests

vars == <<now, iol_session, sources_status, preferred_ccl_source, cache,
          frame, ret, detector, dframe, opp, price_fetcher, variation_analyzer,
          iol_integration, fetched, batch, batch_out, finnhub>>

\* ------------------------------------------------------------ arithmetic
RECURSIVE Gcd(_, _)
Gcd(a, b) == IF b = 0 THEN a ELSE Gcd(b, a % b)

\* float division of two non-zero numbers, kept exact
Div(p, q) == LET g == Gcd(p, q) IN <<p \div g, q \div g>>

RatePositive(r) == r[1] > 0 /\ r[2] > 0

Abs(x) == IF x < 0 THEN -x ELSE x

NoRate == <<0, 1>>

\* --------------------------------------------------- DollarRateService

InitSourcesStatus ==
    [s \in AllSources |-> IF s = "ccl_al30" THEN FALSE ELSE TRUE]

NoEntry == [present |-> FALSE, rate |-> NoRate, ts |-> 0]

InitCache == [s \in CclSources |-> NoEntry]

\* a set_iol_session that only ever enables the bond source
set_iol_session_enable_only(st, session) ==
    [iol_session |-> session,
     sources_status |-> [st.sources_status EXCEPT !["ccl_al30"] = (@ \/ session # None)]]

\* set_iol_session on the pair (iol_session, sources_status)
set_iol_session(st, session) ==
    [iol_session |-> session,
     sources_status |-> [st.sources_status EXCEPT !["ccl_al30"] = (session # None)]]

\* a priority order that ignores the preferred source
SourcesFor_fixed(preferred) == <<"dolarapi_ccl", "ccl_al30">>

\* priority order built from the preferred source
SourcesFor(preferred) ==
    IF preferred = "dolarapi_ccl" THEN <<"dolarapi_ccl", "ccl_al30">>
    ELSE IF preferred = "ccl_al30" THEN <<"ccl_al30", "dolarapi_ccl">>
    ELSE <<"dolarapi_ccl", "ccl_al30">>

\* a _get_from_cache whose entries expire as soon as their age reaches the TTL
get_from_cache_strict(c, key, t) ==
    IF ~c[key].present THEN [cache |-> c, data |-> NoEntry]
    ELSE IF t - c[key].ts >= CacheTtl
         THEN [cache |-> [c EXCEPT ![key] = NoEntry], data |-> NoEntry]
         ELSE [cache |-> c, data |-> c[key]]

\* _get_from_cache: [cache |-> cache after the lookup, data |-> entry found]
get_from_cache(c, key, t) ==
    IF ~c[key].present THEN [cache |-> c, data |-> NoEntry]
    ELSE IF t - c[key].ts > CacheTtl
         THEN [cache |-> [c EXCEPT ![key] = NoEntry], data |-> NoEntry]
         ELSE [cache |-> c, data |-> c[key]]

\* _set_cache
set_cache(c, key, rate, t) ==
    [c EXCEPT ![key] = [present |-> TRUE, rate |-> rate, ts |-> t]]

\* _get_from_cache_expired_ok
get_from_cache_expired_ok(c, key) == c[key]

Raise == [ok |-> FALSE, rate |-> NoRate]

\* a pending gather: no answer yet
NoBonds == [ok |-> FALSE, valid |-> FALSE]

\* a _get_dolarapi_ccl that only rejects a missing or zero "venta"
get_dolarapi_ccl_unsigned(resp) ==
    IF ~resp.ok THEN Raise
    ELSE IF resp.v = 0 THEN Raise
    ELSE [ok |-> TRUE, rate |-> Div(resp.v, 1)]

\* _get_dolarapi_ccl on the upstream answer: the rate, or an exception
get_dolarapi_ccl(resp) ==
    IF ~resp.ok THEN Raise
    ELSE IF resp.v = 0 \/ resp.v <= 0 THEN Raise
    ELSE [ok |-> TRUE, rate |-> Div(resp.v, 1)]

\* get_bond_price (inner function of _get_ccl_al30): the price, 0 = exception
get_bond_price(session, resp) ==
    IF session = None THEN 0
    ELSE IF ~resp.ok THEN 0
    ELSE IF resp.v = 0 \/ resp.v <= 0 THEN 0
    ELSE resp.v

\* the rest of _get_ccl_al30 after the gather
ccl_al30_result(al30_price, al30d_price) ==
    IF al30_price = 0 \/ al30d_price = 0 THEN Raise
    ELSE [ok |-> TRUE, rate |-> Div(al30_price, al30d_price)]

\* the cache loop of get_ccl_rate, from the i-th source on
RECURSIVE CacheLoop(_, _, _, _)
CacheLoop(c, sources, i, t) ==
    IF i > Len(sources)
    THEN [cache |-> c, hit |-> FALSE, source |-> None, rate |-> NoRate]
    ELSE LET g == get_from_cache(c, sources[i], t) IN
         IF g.data.present
         THEN [cache |-> g.cache, hit |-> TRUE, source |-> sources[i],
               rate |-> g.data.rate]
         ELSE CacheLoop(g.cache, sources, i + 1, t)

\* one entry of the fetch history of a call
LogEntry(src, session, res, answer) ==
    [src |-> src, session |-> session, pending |-> FALSE, ok |-> res.ok,
     rate |-> res.rate, answer |-> answer]

\* what an upstream answer carried
AnswerKind(resp) ==
    IF ~resp.ok THEN "error" ELSE IF resp.v <= 0 THEN "nonpositive" ELSE "valid"

NoResp == [ok |-> FALSE, v |-> 0]

\* a live loop that tries every source whatever its status
SourceAvailable_always(status, source) == TRUE

\* the availability test of the live loop
SourceAvailable(status, source) == status[source]

\* an attempt that is not recorded
AppendAttempt_lost(attempted, source) == attempted

\* attempted_sources.append(source), done before the fetch is awaited
AppendAttempt(attempted, source) == Append(attempted, source)

\* a failure that leaves the source available
MarkUnavailable_forgiving(status, source) == status

\* self.sources_status[source] = False, in the except clause of the live loop
MarkUnavailable(status, source) == [status EXCEPT ![source] = FALSE]

\* the live loop of get_ccl_rate, from the i-th source on.  L holds the
\* state the loop works on (sources_status, cache, attempted_sources) and
\* the history of the call (log, skipped).  dresp is the answer dolarapi
\* gives if asked.  The loop stops at a success ("quote"), at the gather
\* of _get_ccl_al30 ("suspend") or after the last source ("exhausted").
RECURSIVE LiveLoop(_, _, _, _, _, _)
LiveLoop(i, sources, L, dresp, session, t) ==
    IF i > Len(sources)
    THEN [kind |-> "exhausted", L |-> L, i |-> i, source |-> None, rate |-> NoRate]
    ELSE LET source == sources[i] IN
      IF ~SourceAvailable(L.status, source)
      THEN LiveLoop(i + 1, sources,
                    [L EXCEPT !.skipped = Append(@, source)], dresp, session, t)
      ELSE LET att == AppendAttempt(L.attempted, source) IN
        IF source = "dolarapi_ccl"
        THEN LET res == get_dolarapi_ccl(dresp)
                 L1 == [L EXCEPT !.attempted = att,
                                 !.log = Append(@, LogEntry(source, session, res, AnswerKind(dresp)))]
             IN IF res.ok
                THEN [kind |-> "quote",
                      L |-> [L1 EXCEPT !.cache = set_cache(@, source, res.rate, t)],
                      i |-> i, source |-> source, rate |-> res.rate]
                ELSE LiveLoop(i + 1, sources,
                              [L1 EXCEPT !.status = MarkUnavailable(@, source)],
                              dresp, session, t)
        ELSE \* ccl_al30
          IF session = None
          THEN LiveLoop(i + 1, sources,
                        [L EXCEPT !.attempted = att,
                                  !.log = Append(@, LogEntry(source, session, Raise, "none")),
                                  !.status = MarkUnavailable(@, source)],
                        dresp, session, t)
          ELSE [kind |-> "suspend",
                L |-> [L EXCEPT !.attempted = att,
                                !.log = Append(@, [LogEntry(source, session, Raise, "none")
                                                   EXCEPT !.pending = TRUE])],
                i |-> i, source |-> source, rate |-> NoRate]

\* the expired-cache loop of get_ccl_rate, from the i-th source on
RECURSIVE StaleLoop(_, _, _)
StaleLoop(c, sources, i) ==
    IF i > Len(sources) THEN [found |-> FALSE, source |-> None, rate |-> NoRate]
    ELSE LET cached_expired == get_from_cache_expired_ok(c, sources[i]) IN
         IF cached_expired.present
         THEN [found |-> TRUE, source |-> sources[i], rate |-> cached_expired.rate]
         ELSE StaleLoop(c, sources, i + 1)

\* "fallback_used": source != preferred_source
FallbackUsed(source, preferred) == source # preferred

\* the values get_ccl_rate returns: the quote dict, or None
CacheHitResult(source, preferred, rate) ==
    [kind |-> "quote", path |-> "cache", rate |-> rate, source |-> source,
     preferred |-> preferred, fallback_used |-> FallbackUsed(source, preferred),
     cache_fallback |-> FALSE, attempted |-> <<source>>]

LiveResult(source, preferred, rate, attempted) ==
    [kind |-> "quote", path |-> "live", rate |-> rate, source |-> source,
     preferred |-> preferred, fallback_used |-> FallbackUsed(source, preferred),
     cache_fallback |-> FALSE, attempted |-> attempted]

StaleResult(source, preferred, rate, attempted) ==
    [kind |-> "quote", path |-> "stale", rate |-> rate, source |-> source,
     preferred |-> preferred, fallback_used |-> TRUE,
     cache_fallback |-> TRUE, attempted |-> attempted]

NoneResult(preferred, attempted) ==
    [kind |-> "None", path |-> "none", rate |-> NoRate, source |-> None,
     preferred |-> preferred, fallback_used |-> FALSE,
     cache_fallback |-> FALSE, attempted |-> attempted]

NoResult == [NoneResult(None, <<>>) EXCEPT !.kind = "init"]

\* history of a call, kept next to its frame and handed over with its
\* result: the fetches it made, the sources it skipped, and the sources
\* whose cache entry existed when the call began
NoHist == [log |-> <<>>, skipped |-> <<>>, sources |-> <<>>, cachedAtCall |-> {}]

IdleFrame == [pc |-> "idle", caller |-> "none", preferred |-> None, i |-> 0,
              attempted |-> <<>>, bonds |-> NoBonds, hist |-> NoHist]

\* the end of get_ccl_rate once the live loop has stopped at lv
\* (lv.kind is "quote" or "exhausted")
AfterLive(lv, preferred, sources, hist) ==
    LET h == [hist EXCEPT !.log = lv.L.log, !.skipped = lv.L.skipped] IN
    IF lv.kind = "quote"
    THEN [kind |-> "done", cache |-> lv.L.cache, status |-> lv.L.status,
          res |-> LiveResult(lv.source, preferred, lv.rate, lv.L.attempted),
          hist |-> h, fr |-> IdleFrame]
    ELSE LET sl == StaleLoop(lv.L.cache, sources, 1) IN
         [kind |-> "done", cache |-> lv.L.cache, status |-> lv.L.status,
          res |-> IF sl.found
                  THEN StaleResult(sl.source, preferred, sl.rate, lv.L.attempted)
                  ELSE NoneResult(preferred, lv.L.attempted),
          hist |-> h, fr |-> IdleFrame]

\* get_ccl_rate from its first line to its return or to the gather of
\* _get_ccl_al30, in the service state (c, status, session) at time t
CclBegin(arg, c, status, session, t, dresp) ==
    LET preferred == IF arg = None THEN preferred_ccl_source ELSE arg
        sources == SourcesFor(preferred)
        hist == [NoHist EXCEPT !.sources = sources,
                               !.cachedAtCall = {k \in CclSources : c[k].present}]
        cl == CacheLoop(c, sources, 1, t)
    IN IF cl.hit
       THEN [kind |-> "done", cache |-> cl.cache, status |-> status,
             res |-> CacheHitResult(cl.source, preferred, cl.rate),
             hist |-> hist, fr |-> IdleFrame]
       ELSE LET lv == LiveLoop(1, sources,
                               [status |-> status, cache |-> cl.cache,
                                attempted |-> <<>>, log |-> <<>>, skipped |-> <<>>],
                               dresp, session, t)
            IN IF lv.kind = "suspend"
               THEN [kind |-> "suspend", cache |-> lv.L.cache, status |-> lv.L.status,
                     res |-> NoResult,
                     hist |-> [hist EXCEPT !.log = lv.L.log, !.skipped = lv.L.skipped],
                     fr |-> [IdleFrame EXCEPT !.pc = "al30_gather",
                                              !.preferred = preferred,
                                              !.i = lv.i,
                                              !.attempted = lv.L.attempted,
                                              !.hist = [hist EXCEPT !.log = lv.L.log,
                                                                    !.skipped = lv.L.skipped]]]
               ELSE AfterLive(lv, preferred, sources, hist)

\* get_ccl_rate from the return of the gather to its return; bonds is what
\* _get_ccl_al30 makes of the two prices the gather delivered
CclResume(fr, bonds, c, status, session, t, dresp) ==
    LET sources == fr.hist.sources
        n == Len(fr.hist.log)
        log1 == [fr.hist.log EXCEPT ![n] = [@ EXCEPT !.pending = FALSE,
                                                     !.ok = bonds.ok,
                                                     !.rate = bonds.rate,
                                                     !.answer = IF fr.bonds.valid
                                                                THEN "valid" ELSE "none"]]
        L == [status |-> status, cache |-> c, attempted |-> fr.attempted,
              log |-> log1, skipped |-> fr.hist.skipped]
        lv == IF bonds.ok
              THEN [kind |-> "quote",
                    L |-> [L EXCEPT !.cache = set_cache(@, "ccl_al30", bonds.rate, t)],
                    i |-> fr.i, source |-> "ccl_al30", rate |-> bonds.rate]
              ELSE LiveLoop(fr.i + 1, sources,
                            [L EXCEPT !.status = MarkUnavailable(@, "ccl_al30")],
                            dresp, session, t)
    IN AfterLive(lv, fr.preferred, sources, fr.hist)

NoRet == [task |-> None, caller |-> "none", res |-> NoResult, hist |-> NoHist,
          returnedAt |-> 0]

\* --------------------------------------------------- ArbitrageDetector

\* the constant used when get_ccl_rate returns None
FallbackCcl == 1300

\* threshold_percentage values, as fractions; the first is the default 0.005
Thresholds == {<<1, 200>>, <<1, 2>>}

\* ------------------------------------------------ the other consumers

\* PriceFetcher.__init__ / set_iol_session, VariationAnalyzer.__init__ /
\* set_iol_session: the session and the mode derived from it
WithSession(session) ==
    [iol_session |-> session, mode |-> IF session # None THEN "full" ELSE "limited"]

\* ------------------------------------------- detect_portfolio_arbitrages

\* what the batch keeps of one detection: pending until it returns
Pending == [done |-> FALSE, kind |-> "None", symbol |-> None, action |-> None]
ResultOf(o) ==
    [done |-> TRUE, kind |-> o.kind,
     symbol |-> IF o.kind = "None" THEN None ELSE o.task, action |-> o.action]

\* a filter that keeps the place of every symbol
RECURSIVE Opportunities_unfiltered(_, _)
Opportunities_unfiltered(symbols, results) ==
    IF symbols = <<>> THEN <<>>
    ELSE <<results[Head(symbols)]>> \o Opportunities_unfiltered(Tail(symbols), results)

\* the loop over zip(symbols, results): a result that is not None is kept
\* (detect_single_arbitrage catches every exception, so gather never
\* delivers one)
RECURSIVE Opportunities(_, _)
Opportunities(symbols, results) ==
    IF symbols = <<>> THEN <<>>
    ELSE (IF results[Head(symbols)].kind # "None"
          THEN <<results[Head(symbols)]>> ELSE <<>>)
         \o Opportunities(Tail(symbols), results)

\* the symbol lists of a batch: each symbol is analysed by its own task
SymbolLists ==
    {<<>>} \cup {<<t>> : t \in Tasks} \cup ({<<t, u>> : t, u \in Tasks} \ {<<t, t>> : t \in Tasks})

OpDetectBatch == "detect_portfolio_arbitrages"
OpVariationBatch == "analyze_portfolio_variations"

NoBatch == [running |-> FALSE, op |-> "none", symbols |-> <<>>,
            results |-> [t \in Tasks |-> Pending]]
NoBatchOut == [returned |-> FALSE, op |-> "none", symbols |-> <<>>,
               results |-> [t \in Tasks |-> Pending], opportunities |-> <<>>,
               analyses |-> <<>>]

\* ------------------------------------------------------ CEDEARProcessor

\* A text is a sequence of characters.  A value read from the store is a
\* text or None (kind "null"); kind "absent" is a record without the key.
Digits == {"0", "1", "2", "3", "4", "5", "6", "7", "8", "9"}
DigitVal(c) ==
    CASE c = "0" -> 0 [] c = "1" -> 1 [] c = "2" -> 2 [] c = "3" -> 3 [] c = "4" -> 4
      [] c = "5" -> 5 [] c = "6" -> 6 [] c = "7" -> 7 [] c = "8" -> 8 [] OTHER -> 9

Text(chars) == [kind |-> "text", chars |-> chars]
NullValue == [kind |-> "null", chars |-> <<>>]
AbsentValue == [kind |-> "absent", chars |-> <<>>]

\* conversion ratio texts the downloader writes for listed certificates
RatioTexts == {Text(<<"1", ":", "1">>), Text(<<"2", ":", "1">>)}

\* further values a ratio field can hold
OtherRatioValues ==
    {Text(<<"0", ":", "1">>), Text(<<"-", "2", ":", "1">>), Text(<<"2">>),
     Text(<<"1", "2", ":", "1">>), Text(<<"a", ":", "1">>), Text(<<"a", "b">>),
     Text(<<":", "1">>), Text(<<>>), NullValue}

\* the value of a string of digits
RECURSIVE DigitsValue(_)
DigitsValue(chars) ==
    IF chars = <<>> THEN 0
    ELSE 10 * DigitsValue(SubSeq(chars, 1, Len(chars) - 1)) + DigitVal(chars[Len(chars)])

AllDigits(chars) == chars # <<>> /\ \A i \in 1..Len(chars) : chars[i] \in Digits

\* float(text) on an optional sign and digits; ok = FALSE is ValueError
ParseFloat(chars) ==
    IF AllDigits(chars) THEN [ok |-> TRUE, v |-> DigitsValue(chars)]
    ELSE IF chars # <<>> /\ chars[1] \in {"-", "+"} /\ AllDigits(Tail(chars))
    THEN [ok |-> TRUE,
          v |-> IF chars[1] = "-" THEN -DigitsValue(Tail(chars)) ELSE DigitsValue(Tail(chars))]
    ELSE [ok |-> FALSE, v |-> 0]

\* text.split(":")[0]
BeforeColon(chars) ==
    IF \E i \in 1..Len(chars) : chars[i] = ":"
    THEN SubSeq(chars, 1, (CHOOSE i \in 1..Len(chars) :
                              chars[i] = ":" /\ \A j \in 1..(i - 1) : chars[j] # ":") - 1)
    ELSE chars

\* a parse_ratio that also catches the TypeError of a value that is no text
parse_ratio_total(ratio_str) ==
    IF ratio_str.kind # "text" THEN [raised |-> FALSE, v |-> 1]
    ELSE LET f == ParseFloat(BeforeColon(ratio_str.chars))
         IN [raised |-> FALSE, v |-> IF f.ok THEN f.v ELSE 1]

\* CEDEARProcessor.parse_ratio: the number before the colon, 1.0 when float()
\* raises ValueError; raised = TRUE when the exception leaves the function
\* (":" in None is a TypeError, which the except clause does not name)
parse_ratio(ratio_str) ==
    IF ratio_str.kind # "text" THEN [raised |-> TRUE, v |-> 0]
    ELSE LET f == ParseFloat(BeforeColon(ratio_str.chars))
         IN [raised |-> FALSE, v |-> IF f.ok THEN f.v ELSE 1]

\* CEDEARProcessor.get_underlying_asset: the record of the symbol, or None
NotListed == [found |-> FALSE, ratio |-> AbsentValue]
Listed(ratio) == [found |-> TRUE, ratio |-> ratio]

\* cedear_info.get("ratio", "1:1")
RatioOrDefault(info) ==
    IF info.ratio.kind = "absent" THEN Text(<<"1", ":", "1">>) ELSE info.ratio

\* the store records the detector meets
DetectorStore ==
    {NotListed} \cup {Listed(r) : r \in RatioTexts \cup {Text(<<"0", ":", "1">>), NullValue}}

\* ArbitrageDetector.set_iol_session
det_set_iol_session(session) ==
    [iol_session |-> session, mode |-> IF session # None THEN "full" ELSE "limited"]

\* InternationalPriceService.get_stock_price as the detector sees it: a
\* positive price (live, or from the service's own cache) or None (0)
get_stock_price(resp) == IF Invalid(resp) THEN 0 ELSE resp.v

\* _get_iol_cedear_price / _get_byma_real_cedear_price up to their call of
\* get_ccl_rate: the certificate price in ARS and the ratio, ok = FALSE when
\* they return (None, None) before that call
cedear_quote(det, info, resp) ==
    LET n == parse_ratio(RatioOrDefault(info))
        failed == [ok |-> FALSE, ars |-> 0, ratio |-> 1]
    IN IF det.mode = "full" /\ det.iol_session # None
       THEN \* IOL: ultimoPrecio, then the ratio lookup
            IF Invalid(resp) \/ ~info.found \/ n.raised THEN failed
            ELSE [ok |-> TRUE, ars |-> resp.v, ratio |-> n.v]
       ELSE \* BYMA: the ratio lookup, then trade / closingPrice
            IF ~info.found \/ n.raised \/ Invalid(resp) THEN failed
            ELSE [ok |-> TRUE, ars |-> resp.v, ratio |-> n.v]

\* _get_theoretical_cedear_price with the underlying price at hand: it
\* delivers a pair unless the symbol is not listed, parse_ratio raises or the
\* division by the ratio raises (its rate falls back to the constant)
theoretical_resolves(info) ==
    LET n == parse_ratio(RatioOrDefault(info))
    IN info.found /\ ~n.raised /\ n.v # 0

\* ccl_data["rate"] if ccl_data else 1300.0
CclRateOr(res) == IF res.kind = "quote" THEN res.rate ELSE <<FallbackCcl, 1>>

\* a conversion that divides by the ratio
ShareViaCedearUsd_divided(ars, ratio, rate) == Div(ars * rate[2], ratio * rate[1])

\* (precio_cedear_ars * conversion_ratio) / ccl_rate
ShareViaCedearUsd(ars, ratio, rate) == Div(ars * ratio * rate[2], rate[1])

\* underlying_price_usd - accion_via_cedear_usd
DifferenceUsd(U, usd) == Div(U * usd[2] - usd[1], usd[2])

\* abs(difference_usd) / underlying_price_usd
DifferencePercentage(diff, U) == Div(Abs(diff[1]), diff[2] * U)

\* a threshold test that needs the threshold to be exceeded
ExceedsThreshold_strict(pct, thr) == pct[1] * thr[2] > thr[1] * pct[2]

\* difference_percentage >= threshold_percentage
ExceedsThreshold(pct, thr) == pct[1] * thr[2] >= thr[1] * pct[2]

\* a recommendation that reads the sign the wrong way round
Recommendation_inverted(difference_usd) ==
    IF difference_usd[1] < 0 THEN "BUY_CEDEAR" ELSE "BUY_UNDERLYING"

\* ArbitrageOpportunity.__init__: the action from difference_usd
Recommendation(difference_usd) ==
    IF difference_usd[1] > 0 THEN "BUY_CEDEAR" ELSE "BUY_UNDERLYING"

\* ------------------------------------------------------ float arithmetic

\* A Python float is a binary number with 53 significant bits and every
\* operation rounds its exact result to the nearest one, ties to even.  The
\* model keeps MantissaBits significant bits; (1 / 49) * 49 rounds below 1
\* with 4 bits as it does with 53.
MantissaBits == 4

RECURSIVE Pow2(_)
Pow2(n) == IF n = 0 THEN 1 ELSE 2 * Pow2(n - 1)

\* p / q > 0 times 2^k, with k such that the product lies in
\* [2^(MantissaBits - 1), 2^MantissaBits)
RECURSIVE Scaled(_, _, _)
Scaled(p, q, k) ==
    IF p >= Pow2(MantissaBits) * q THEN Scaled(p, 2 * q, k - 1)
    ELSE IF p < Pow2(MantissaBits - 1) * q THEN Scaled(2 * p, q, k + 1)
    ELSE [p |-> p, q |-> q, k |-> k]

\* the integer nearest to p / q, ties to even
RoundHalfEven(p, q) ==
    LET n == p \div q
        r == p % q
    IN IF 2 * r > q \/ (2 * r = q /\ n % 2 = 1) THEN n + 1 ELSE n

\* the float nearest to the fraction x
Fl(x) ==
    IF x[1] = 0 THEN <<0, 1>>
    ELSE LET s == Scaled(Abs(x[1]), x[2], 0)
             n == RoundHalfEven(s.p, s.q)
             m == IF s.k >= 0 THEN Div(n, Pow2(s.k)) ELSE Div(n * Pow2(-s.k), 1)
         IN IF x[1] < 0 THEN <<-m[1], m[2]>> ELSE m

\* a / b and a * b on floats (b # 0 in FDiv)
FDiv(a, b) ==
    IF b[1] < 0 THEN Fl(Div(-(a[1] * b[2]), a[2] * (-b[1])))
    ELSE Fl(Div(a[1] * b[2], a[2] * b[1]))
FMul(a, b) == Fl(Div(a[1] * b[1], a[2] * b[2]))

\* ---------------------------------------------------------- PriceFetcher

\* the outcome of a call of PriceFetcher, CEDEARProcessor or get_portfolio:
\* op names the method, route the price source it used, raised whether an
\* exception left it, none whether it returned (None, None), first and
\* second the pair otherwise; U, info and session are its inputs and the
\* session it met, ratio the parsed numerator, divided whether it divided by
\* divisor
NoFetched == [task |-> None, op |-> "none", route |-> "none", raised |-> FALSE,
              none |-> TRUE, first |-> NoRate, second |-> NoRate,
              U |-> 0, info |-> NotListed, ratio |-> 1, rate |-> NoRate,
              session |-> None, divided |-> FALSE, divisor |-> 1,
              Y |-> 0, variations |-> <<NoRate, NoRate, NoRate>>,
              failed_at |-> "none", factor |-> None, iol |-> 0, byma |-> 0]

\* PriceFetcher._get_cedear_conversion_info: ValueError when the symbol is
\* not listed or its ratio is missing, None or empty; parse_ratio otherwise
get_cedear_conversion_info(info) ==
    IF ~info.found \/ info.ratio.kind # "text" \/ info.ratio.chars = <<>>
    THEN [raised |-> TRUE, v |-> 0]
    ELSE parse_ratio(info.ratio)

\* a fetcher that trusts its mode alone and never leaves it
UsesIol_always(pf) == TRUE

\* the test of get_cedear_price
UsesIol(pf) == pf.mode = "full" /\ pf.iol_session # None

\* PriceFetcher.get_cedear_price(symbol): the route taken and the price of
\* today, 0 for None.  _get_iol_cedear_price asks the broker; 
\* _get_byma_cedear_price looks the conversion up first and then reads the
\* snapshot
get_cedear_price(pf, info, resp) ==
    IF UsesIol(pf)
    THEN [route |-> "iol", ars |-> IF Invalid(resp) THEN 0 ELSE resp.v]
    ELSE [route |-> "byma",
          ars |-> IF get_cedear_conversion_info(info).raised \/ Invalid(resp)
                  THEN 0 ELSE resp.v]

\* PriceFetcher._get_ccl_rate_safe: the rate, NoRate for None
get_ccl_rate_safe(res) ==
    IF res.kind = "quote" /\ res.rate[1] # 0 THEN res.rate ELSE NoRate

NoD == [stage |-> "idle", thr |-> <<0, 1>>, U |-> 0, ars |-> 0, ratio |-> 1,
        usd |-> NoRate, rate |-> NoRate, rate_fallback |-> FALSE,
        route |-> "none", session |-> None, info |-> NotListed,
        divided |-> FALSE, Y |-> 0, ars_ayer |-> 0, ccl_ayer |-> 0]

\* what detect_single_arbitrage returned (kind), with the values it computed;
\* failed_at names the step that made it return None before the comparison,
\* rate and rate_fallback the rate of the conversion and whether it was the
\* constant, ccl_fallback whether ccl_rate is the constant, theoretical
\* whether _get_theoretical_cedear_price would have delivered a price
NoOpp == [task |-> None, kind |-> "None", resolved |-> FALSE, thr |-> <<0, 1>>,
          U |-> 0, ars |-> 0, usd |-> NoRate, difference_usd |-> NoRate,
          difference_percentage |-> NoRate, ccl_rate |-> NoRate,
          action |-> None, iol_session_active |-> FALSE,
          failed_at |-> "none", ratio |-> 1, rate |-> NoRate,
          rate_fallback |-> FALSE, ccl_fallback |-> FALSE, theoretical |-> FALSE]

\* detect_single_arbitrage returns None before the comparison
DetectAborted(task, failed_at) == [NoOpp EXCEPT !.task = task, !.failed_at = failed_at]

\* detect_single_arbitrage returns None after the comparison
DetectNoSignal(task, d) ==
    LET diff == DifferenceUsd(d.U, d.usd) IN
    [NoOpp EXCEPT !.task = task, !.resolved = TRUE, !.thr = d.thr, !.U = d.U,
                  !.ars = d.ars, !.usd = d.usd, !.difference_usd = diff,
                  !.difference_percentage = DifferencePercentage(diff, d.U),
                  !.ratio = d.ratio, !.rate = d.rate,
                  !.rate_fallback = d.rate_fallback]

\* detect_single_arbitrage returns an ArbitrageOpportunity
DetectOpportunity(task, d, det, res) ==
    LET diff == DifferenceUsd(d.U, d.usd) IN
    [DetectNoSignal(task, d) EXCEPT !.kind = "opportunity",
                                    !.ccl_rate = CclRateOr(res),
                                    !.ccl_fallback = (res.kind # "quote"),
                                    !.action = Recommendation(diff),
                                    !.iol_session_active = (det.mode = "full")]

\* the state a step of a task leaves behind
Leaves(c, status, fr, r, dfr, o) ==
    [cache |-> c, status |-> status, fr |-> fr, ret |-> r, dfr |-> dfr, opp |-> o,
     fetched |-> NoFetched]

RetOf(task, caller, o, t) ==
    [task |-> task, caller |-> caller, res |-> o.res, hist |-> o.hist, returnedAt |-> t]

\* detect_single_arbitrage once the get_ccl_rate call for the opportunity
\* has returned with o
DetAfterOpp(task, d, o, det, t) ==
    Leaves(o.cache, o.status, IdleFrame, RetOf(task, "det_opp", o, t), NoD,
           DetectOpportunity(task, d, det, o.res))

\* detect_single_arbitrage once the get_ccl_rate call of the price helper
\* has returned with o: the conversion, the comparison and, above the
\* threshold, the second get_ccl_rate call
DetAfterPrice(task, d, o, det, session, t, dresp) ==
    LET usd == ShareViaCedearUsd(d.ars, d.ratio, CclRateOr(o.res))
        d1 == [d EXCEPT !.usd = usd, !.rate = CclRateOr(o.res),
                        !.rate_fallback = (o.res.kind # "quote")]
        diff == DifferenceUsd(d.U, usd)
        pct == DifferencePercentage(diff, d.U)
    IN IF usd[1] = 0
       THEN Leaves(o.cache, o.status, IdleFrame, RetOf(task, "det_price", o, t), NoD,
                   DetectAborted(task, "conversion"))
       ELSE IF ExceedsThreshold(pct, d.thr)
       THEN LET o2 == CclBegin(None, o.cache, o.status, session, t, dresp) IN
            IF o2.kind = "suspend"
            THEN Leaves(o2.cache, o2.status, [o2.fr EXCEPT !.caller = "det_opp"],
                        NoRet, [d1 EXCEPT !.stage = "opp"], NoOpp)
            ELSE DetAfterOpp(task, d1, o2, det, t)
       ELSE Leaves(o.cache, o.status, IdleFrame, RetOf(task, "det_price", o, t), NoD,
                   DetectNoSignal(task, d1))

\* ------------------------------------------- the steps of PriceFetcher

OpActionUsd == "get_cedear_price_with_action_usd"
OpTheoretical == "get_theoretical_cedear_price"

\* the state a step of a PriceFetcher call leaves behind
LeavesFetched(c, status, fr, r, dfr, f) ==
    [Leaves(c, status, fr, r, dfr, NoOpp) EXCEPT !.fetched = f]

\* the call d returns (None, None)
PfNone(task, d) ==
    [NoFetched EXCEPT !.task = task, !.op = d.stage, !.route = d.route,
                      !.U = d.U, !.info = d.info, !.ratio = d.ratio,
                      !.session = d.session, !.divided = d.divided,
                      !.divisor = IF d.divided THEN d.ratio ELSE 1]

\* precio_cedear_individual_usd * conversion_ratio
ImpliedShareUsd(d) == FMul(d.usd, <<d.ratio, 1>>)

\* the call d returns the pair (first, second)
PfPair(task, d, rate, first, second) ==
    [PfNone(task, d) EXCEPT !.none = FALSE, !.first = first, !.second = second,
                            !.rate = rate]

\* get_cedear_price_with_action_usd / get_theoretical_cedear_price once
\* _get_ccl_rate_safe has returned: (None, None) without a rate, the pair
\* otherwise
PfAfterRate(task, d, o, t) ==
    LET rate == get_ccl_rate_safe(o.res)
        f == IF rate = NoRate THEN PfNone(task, d)
             ELSE IF d.stage = OpActionUsd
             THEN PfPair(task, d, rate, <<d.ars, 1>>,
                         FMul(FDiv(<<d.ars, 1>>, Fl(rate)), <<d.ratio, 1>>))
             ELSE PfPair(task, d, rate, FMul(d.usd, Fl(rate)), ImpliedShareUsd(d))
    IN LeavesFetched(o.cache, o.status, IdleFrame, RetOf(task, d.stage, o, t), NoD, f)

\* the call d awaits _get_ccl_rate_safe, which awaits get_ccl_rate()
PfAwaitRate(task, d, c, status, session, t, dresp) ==
    LET o == CclBegin(None, c, status, session, t, dresp)
    IN IF o.kind = "suspend"
       THEN Leaves(o.cache, o.status, [o.fr EXCEPT !.caller = d.stage], NoRet, d, NoOpp)
       ELSE PfAfterRate(task, d, o, t)

\* ----------------------------------------------------- VariationAnalyzer

OpVariation == "analyze_single_variation"

\* p / q in lowest terms with a positive denominator (q # 0)
Frac(p, q) == IF q < 0 THEN Div(-p, -q) ELSE Div(p, q)

\* (today - yesterday) / yesterday on fractions
Variation(today, yesterday) ==
    Frac(today[1] * yesterday[2] - yesterday[1] * today[2], today[2] * yesterday[1])

\* _get_historical_underlying_price(symbol): no historical source is left,
\* the method logs a warning and returns None (0)
get_historical_underlying_price == 0

\* _get_cedear_prices: today's and yesterday's price of the certificate, ok =
\* FALSE for (None, None).  qresp is ultimoPrecio / trade, yresp the previous
\* close.  The IOL branch calls _get_theoretical_cedear_prices without a
\* previous close, a method the class does not have, and the AttributeError
\* is caught
va_cedear_prices(va, qresp, yresp) ==
    LET failed == [ok |-> FALSE, hoy |-> 0, ayer |-> 0]
    IN IF Invalid(qresp) THEN failed
       ELSE IF va.mode = "full" /\ va.iol_session # None
       THEN IF ~yresp.ok \/ yresp.v = 0 THEN failed
            ELSE [ok |-> TRUE, hoy |-> qresp.v, ayer |-> yresp.v]
       ELSE IF Invalid(yresp) THEN failed
            ELSE [ok |-> TRUE, hoy |-> qresp.v, ayer |-> yresp.v]

\* analyze_single_variation returns None at the step failed_at
VaNone(task, d, failed_at) ==
    [NoFetched EXCEPT !.task = task, !.op = OpVariation, !.U = d.U, !.Y = d.Y,
                      !.session = d.session, !.failed_at = failed_at]

\* analyze_single_variation returns the analysis
VaAnalysis(task, d, ccl_today) ==
    LET ccl_yesterday == IF d.ccl_ayer = 0 THEN ccl_today ELSE <<d.ccl_ayer, 1>>
    IN [VaNone(task, d, "none") EXCEPT
          !.none = FALSE, !.first = <<d.ars, 1>>, !.rate = ccl_today,
          !.variations = <<Variation(<<d.ars, 1>>, <<d.ars_ayer, 1>>),
                           Variation(<<d.U, 1>>, <<d.Y, 1>>),
                           Variation(ccl_today, ccl_yesterday)>>]

\* analyze_single_variation once get_ccl_rate has returned with o in
\* _get_ccl_prices
VaAfterRate(task, d, o, t) ==
    LeavesFetched(o.cache, o.status, IdleFrame, RetOf(task, OpVariation, o, t), NoD,
                  IF o.res.kind = "quote" /\ o.res.rate[1] # 0
                  THEN VaAnalysis(task, d, o.res.rate)
                  ELSE VaNone(task, d, "ccl"))

\* |a| > |b| on fractions
AbsGreater(a, b) == Abs(a[1]) * b[2] > Abs(b[1]) * a[2]

\* a choice of the factor by the signed values
get_strongest_factor_signed(var_cedear, var_underlying, var_ccl) ==
    LET second == var_underlying[1] * var_cedear[2] > var_cedear[1] * var_underlying[2]
        v12 == IF second THEN var_underlying ELSE var_cedear
    IN IF var_ccl[1] * v12[2] > v12[1] * var_ccl[2] THEN "CCL"
       ELSE IF second THEN "Subyacente" ELSE "CEDEAR"

\* CEDEARVariationAnalysis.get_strongest_factor: max over the dict of the
\* absolute values, which yields the first key, in insertion order, that
\* holds the largest value
get_strongest_factor(var_cedear, var_underlying, var_ccl) ==
    LET second == AbsGreater(var_underlying, var_cedear)
        v12 == IF second THEN var_underlying ELSE var_cedear
    IN IF AbsGreater(var_ccl, v12) THEN "CCL"
       ELSE IF second THEN "Subyacente" ELSE "CEDEAR"

\* what the batch keeps of one analysis
VaResultOf(f) ==
    [done |-> TRUE, kind |-> IF f.none THEN "None" ELSE "analysis",
     symbol |-> IF f.none THEN None ELSE f.task, action |-> None]

\* a filter that keeps the place of every symbol
RECURSIVE Analyses_unfiltered(_, _)
Analyses_unfiltered(symbols, results) ==
    IF symbols = <<>> THEN <<>>
    ELSE <<results[Head(symbols)]>> \o Analyses_unfiltered(Tail(symbols), results)

\* the loop over zip(symbols, results) of analyze_portfolio_variations: a
\* result that is neither an exception nor None is kept
RECURSIVE Analyses(_, _)
Analyses(symbols, results) ==
    IF symbols = <<>> THEN <<>>
    ELSE (IF results[Head(symbols)].kind # "None"
          THEN <<results[Head(symbols)]>> ELSE <<>>)
         \o Analyses(Tail(symbols), results)

\* ------------------------------------------- InternationalPriceService

\* self.finnhub_min_interval = 1.0, the unit of the clock of the limiter
finnhub_min_interval == 1

\* __init__: last_finnhub_call = 0 on a clock that reads seconds since 1970,
\* that is, more than one interval before the first call; nobody is inside
\* requests.get (busy), every get_stock_price is still to be called, and
\* no request has been started
InitFinnhub ==
    [last_finnhub_call |-> 0 - finnhub_min_interval, busy |-> None,
     pc |-> [t \in Callers |-> "idle"], wake |-> [t \in Callers |-> 0],
     started |-> <<>>]

\* the thread enters requests.get for task at time t
StartRequest(f, task, t) ==
    [f EXCEPT !.pc[task] = "request", !.busy = task,
              !.started = Append(@, [task |-> task, at |-> t])]

\* _get_finnhub_price from its first line to asyncio.sleep or into
\* requests.get
get_finnhub_price(f, task, t) ==
    LET time_since_last_call == t - f.last_finnhub_call IN
    IF time_since_last_call < finnhub_min_interval
    THEN [f EXCEPT !.pc[task] = "sleep",
                   !.wake[task] = t + (finnhub_min_interval - time_since_last_call)]
    ELSE StartRequest(f, task, t)

\* requests.get returns or raises; last_finnhub_call is written after
\* raise_for_status and response.json(), before the price is validated
finnhub_response(f, task, resp, t) ==
    [f EXCEPT !.pc[task] = "done", !.busy = None,
              !.last_finnhub_call = IF resp.ok THEN t ELSE @]

\* ------------------------------------------------------------ processes

\* what a step of the exchange-rate service or of a detection leaves alone
Untouched ==
    /\ fetched' = NoFetched
    /\ UNCHANGED finnhub
    /\ batch_out' = NoBatchOut
    /\ UNCHANGED <<price_fetcher, variation_analyzer, iol_integration, batch>>

Init ==
    /\ now = 0
    /\ iol_session = None
    /\ sources_status = InitSourcesStatus
    /\ preferred_ccl_source = "dolarapi_ccl"   \* the default; callers override it per call
    /\ cache = InitCache
    /\ frame = [t \in Callers |-> IdleFrame]
    /\ ret = NoRet
    /\ detector = det_set_iol_session(None)
    /\ dframe = [t \in Callers |-> NoD]
    /\ opp = NoOpp
    /\ price_fetcher = WithSession(None)
    /\ variation_analyzer = WithSession(None)
    /\ iol_integration = [session |-> None, container |-> FALSE]
    /\ fetched = NoFetched
    /\ batch = NoBatch
    /\ batch_out = NoBatchOut
    /\ finnhub = InitFinnhub

\* datetime.now() advances
Tick ==
    /\ now < MaxTime
    /\ now' = now + 1
    /\ ret' = NoRet
    /\ opp' = NoOpp
    /\ UNCHANGED <<iol_session, sources_status, preferred_ccl_source, cache, frame,
                   detector, dframe>>
    /\ Untouched

\* DollarRateService.set_iol_session(session)
SetIolSession(session) ==
    LET st == set_iol_session([iol_session |-> iol_session,
                               sources_status |-> sources_status], session)
    IN /\ iol_session' = st.iol_session
       /\ sources_status' = st.sources_status
       /\ ret' = NoRet
       /\ opp' = NoOpp
       /\ UNCHANGED <<now, preferred_ccl_source, cache, frame, detector, dframe>>
       /\ Untouched

\* ArbitrageDetector.set_iol_session(session)
DetSetIolSession(session) ==
    /\ detector' = det_set_iol_session(session)
    /\ ret' = NoRet
    /\ opp' = NoOpp
    /\ UNCHANGED <<now, iol_session, sources_status, preferred_ccl_source, cache,
                   frame, dframe>>
    /\ Untouched

\* a step of task ends in the state x
Settle(task, x) ==
    /\ cache' = x.cache
    /\ sources_status' = x.status
    /\ frame' = [frame EXCEPT ![task] = x.fr]
    /\ ret' = x.ret
    /\ dframe' = [dframe EXCEPT ![task] = x.dfr]
    /\ opp' = x.opp
    /\ fetched' = x.fetched
    /\ batch' = IF batch.running /\ x.opp.task = task
                THEN [batch EXCEPT !.results[task] = ResultOf(x.opp)]
                ELSE IF batch.running /\ x.fetched.op = OpVariation
                        /\ x.fetched.task = task
                THEN [batch EXCEPT !.results[task] = VaResultOf(x.fetched)]
                ELSE batch
    /\ UNCHANGED finnhub
    /\ batch_out' = NoBatchOut
    /\ UNCHANGED <<price_fetcher, variation_analyzer, iol_integration>>

\* a direct caller and the outcome o of CclBegin / CclResume
Deliver(task, o) ==
    IF o.kind = "suspend"
    THEN Leaves(o.cache, o.status, [o.fr EXCEPT !.caller = "direct"], NoRet, NoD, NoOpp)
    ELSE Leaves(o.cache, o.status, IdleFrame, RetOf(task, "direct", o, now), NoD, NoOpp)

\* a caller awaits get_ccl_rate(preferred_source)
GetCclRate(task, arg) ==
    /\ frame[task].pc = "idle"
    /\ dframe[task].stage = "idle"
    /\ \E dresp \in Upstream :
         Settle(task, Deliver(task, CclBegin(arg, cache, sources_status,
                                             iol_session, now, dresp)))
    /\ UNCHANGED <<now, iol_session, preferred_ccl_source, detector>>

\* the two get_bond_price coroutines of the gather run; r1 and r2 are the
\* broker's answers for AL30 and AL30D.  The frame keeps whether the gather
\* delivered two prices; the prices themselves are read by nobody before
\* the task is resumed, so the model draws them at the resumption.
Al30BondsWith(task, r1, r2) ==
    /\ frame[task].pc = "al30_gather"
    /\ LET res == ccl_al30_result(get_bond_price(iol_session, r1),
                                  get_bond_price(iol_session, r2))
       IN frame' = [frame EXCEPT ![task].pc = "al30_ready",
                                 ![task].bonds =
                                     [ok |-> res.ok,
                                      valid |-> ~Invalid(r1) /\ ~Invalid(r2)]]
    /\ ret' = NoRet
    /\ opp' = NoOpp
    /\ UNCHANGED <<now, iol_session, sources_status, preferred_ccl_source, cache,
                   detector, dframe>>
    /\ Untouched

\* the prices a gather may have delivered
DeliveredPrices(ok) == IF ok THEN 1..MaxPrice ELSE {0}

\* the aggregator's answers a resumed task can meet: with two bond prices
\* delivered the rate is stored and returned, and a second lookup by the
\* same caller hits that entry, so no request is sent
AnswersAfterGather(ok) == IF ok THEN {NoResp} ELSE Upstream

\* the task waiting on the gather is resumed: get_ccl_rate runs to its
\* return, and so does the caller that awaited it
Al30Resume(task) ==
    /\ frame[task].pc = "al30_ready"
    /\ \E dresp \in AnswersAfterGather(frame[task].bonds.ok) :
       \E al30_price \in DeliveredPrices(frame[task].bonds.ok),
          al30d_price \in DeliveredPrices(frame[task].bonds.ok) :
         LET o == CclResume(frame[task], ccl_al30_result(al30_price, al30d_price),
                            cache, sources_status, iol_session, now, dresp)
             d == dframe[task]
         IN Settle(task,
                   IF frame[task].caller = "det_price"
                   THEN DetAfterPrice(task, d, o, detector, iol_session, now, dresp)
                   ELSE IF frame[task].caller = "det_opp"
                   THEN DetAfterOpp(task, d, o, detector, now)
                   ELSE IF frame[task].caller \in {OpActionUsd, OpTheoretical}
                   THEN PfAfterRate(task, d, o, now)
                   ELSE IF frame[task].caller = OpVariation
                   THEN VaAfterRate(task, d, o, now)
                   ELSE Deliver(task, o))
    /\ UNCHANGED <<now, iol_session, preferred_ccl_source, detector>>

\* detect_single_arbitrage(symbol, threshold_percentage) is called and
\* awaits get_stock_price
DetectBegin(task, thr) ==
    /\ frame[task].pc = "idle"
    /\ dframe[task].stage = "idle"
    /\ dframe' = [dframe EXCEPT ![task] = [NoD EXCEPT !.stage = "underlying", !.thr = thr]]
    /\ ret' = NoRet
    /\ opp' = NoOpp
    /\ UNCHANGED <<now, iol_session, sources_status, preferred_ccl_source, cache,
                   frame, detector>>
    /\ Untouched

\* get_stock_price returns: uresp is the answer for the underlying share,
\* info the record of the store (NotListed: unknown symbol), qresp the
\* answer for the certificate's price
DetectUnderlying(task, uresp, info, qresp) ==
    /\ dframe[task].stage = "underlying"
    /\ LET U == get_stock_price(uresp)
           q == cedear_quote(detector, info, qresp)
           d == [dframe[task] EXCEPT !.U = U, !.ars = q.ars, !.ratio = q.ratio]
       IN IF U = 0 \/ ~q.ok
          THEN Settle(task, Leaves(cache, sources_status, IdleFrame, NoRet, NoD,
                                   [DetectAborted(task, IF U = 0 THEN "underlying"
                                                        ELSE "certificate")
                                      EXCEPT !.theoretical = theoretical_resolves(info)]))
          ELSE \E dresp \in Upstream :
                 LET o == CclBegin(None, cache, sources_status, iol_session, now, dresp)
                 IN Settle(task,
                           IF o.kind = "suspend"
                           THEN Leaves(o.cache, o.status,
                                       [o.fr EXCEPT !.caller = "det_price"], NoRet,
                                       [d EXCEPT !.stage = "price"], NoOpp)
                           ELSE DetAfterPrice(task, d, o, detector,
                                              iol_session, now, dresp))
    /\ UNCHANGED <<now, iol_session, preferred_ccl_source, detector>>

\* further ratio values the store of a consumer can hold
FortyNine == Text(<<"4", "9", ":", "1">>)
ProcessorStore ==
    {NotListed} \cup {Listed(r) : r \in RatioTexts \cup OtherRatioValues
                                        \cup {FortyNine, AbsentValue}}

\* the store records and the certificate quotes the fetcher meets
FetcherStore ==
    {NotListed} \cup {Listed(r) : r \in {Text(<<"2", ":", "1">>), FortyNine,
                                          Text(<<"0", ":", "1">>),
                                          Text(<<"-", "2", ":", "1">>), NullValue}}
FetcherQuotes == {NoResp, [ok |-> TRUE, v |-> 1], [ok |-> TRUE, v |-> MaxPrice]}
\* the aggregator's answers the fetcher's rate lookups meet
FetcherAnswers == {NoResp, [ok |-> TRUE, v |-> MaxPrice]}

\* what a step that touches neither the exchange-rate service nor a
\* detection leaves alone
Quiet ==
    /\ ret' = NoRet
    /\ opp' = NoOpp
    /\ UNCHANGED finnhub
    /\ batch_out' = NoBatchOut
    /\ UNCHANGED <<now, preferred_ccl_source, cache, frame, dframe, batch>>

\* PriceFetcher.set_iol_session(session)
PfSetIolSession(session) ==
    /\ price_fetcher' = WithSession(session)
    /\ fetched' = NoFetched
    /\ UNCHANGED <<iol_session, sources_status, detector, variation_analyzer,
                   iol_integration>>
    /\ Quiet

\* VariationAnalyzer.set_iol_session(session)
VaSetIolSession(session) ==
    /\ variation_analyzer' = WithSession(session)
    /\ fetched' = NoFetched
    /\ UNCHANGED <<iol_session, sources_status, detector, price_fetcher,
                   iol_integration>>
    /\ Quiet

\* IOLIntegration.authenticate(username, password): get_bearer_token raises
\* on a failed login (ok = FALSE) and nothing is set; otherwise the new
\* session is kept, given to the exchange-rate service and, through
\* _notify_session_established, to the services of the container, if the
\* integration was built with one
Authenticate(ok) ==
    LET session == IF ok THEN CHOOSE x \in Sessions : TRUE ELSE iol_integration.session
        st == set_iol_session([iol_session |-> iol_session,
                               sources_status |-> sources_status], session)
        notify == ok /\ iol_integration.container
    IN /\ iol_integration' = [iol_integration EXCEPT !.session = session]
       /\ iol_session' = IF ok THEN st.iol_session ELSE iol_session
       /\ sources_status' = IF ok THEN st.sources_status ELSE sources_status
       /\ price_fetcher' = IF notify THEN WithSession(session) ELSE price_fetcher
       /\ detector' = IF notify THEN det_set_iol_session(session) ELSE detector
       /\ variation_analyzer' = IF notify THEN WithSession(session)
                                ELSE variation_analyzer
       /\ fetched' = [NoFetched EXCEPT !.op = "authenticate", !.raised = ~ok,
                                       !.session = session]
       /\ Quiet

\* PriceFetcher.get_cedear_price(symbol) is called and returns; qresp is
\* what the broker answers for the symbol, bresp what the BYMA snapshot holds
\* for it, and the call reads the one of its route
PfGetCedearPrice(task, info, qresp, bresp) ==
    LET q == get_cedear_price(price_fetcher, info,
                              IF UsesIol(price_fetcher) THEN qresp ELSE bresp)
    IN /\ fetched' = [NoFetched EXCEPT !.task = task, !.op = "get_cedear_price",
                                       !.route = q.route, !.none = (q.ars = 0),
                                       !.first = <<q.ars, 1>>, !.info = info,
                                       !.session = price_fetcher.iol_session,
                                       !.iol = IF Invalid(qresp) THEN 0 ELSE qresp.v,
                                       !.byma = IF Invalid(bresp) THEN 0 ELSE bresp.v]
       /\ UNCHANGED <<iol_session, sources_status, detector, price_fetcher,
                      variation_analyzer, iol_integration>>
       /\ Quiet

\* CEDEARProcessor.parse_ratio(value) is called
ParseRatio(value) ==
    LET n == parse_ratio(value)
    IN /\ fetched' = [NoFetched EXCEPT !.op = "parse_ratio", !.raised = n.raised,
                                       !.none = FALSE, !.info = Listed(value),
                                       !.ratio = n.v]
       /\ UNCHANGED <<iol_session, sources_status, detector, price_fetcher,
                      variation_analyzer, iol_integration>>
       /\ Quiet

\* quantity / conversion_ratio: ZeroDivisionError leaves the caller
Divides(f, quantity, n) ==
    [f EXCEPT !.ratio = n, !.divided = TRUE, !.divisor = n, !.raised = (n = 0),
              !.none = (n = 0),
              !.second = IF n = 0 THEN NoRate ELSE FDiv(<<quantity, 1>>, <<n, 1>>)]

\* CEDEARProcessor.convert_cedear_to_underlying(symbol, quantity): ValueError
\* for an unknown symbol, then parse_ratio and the division
convert_cedear_to_underlying(info, quantity) ==
    LET n == parse_ratio(RatioOrDefault(info))
        f == [NoFetched EXCEPT !.op = "convert_cedear_to_underlying",
                               !.info = info, !.U = quantity]
    IN IF ~info.found \/ n.raised THEN [f EXCEPT !.raised = TRUE]
       ELSE Divides(f, quantity, n.v)

ConvertCedearToUnderlying(info, quantity) ==
    /\ fetched' = convert_cedear_to_underlying(info, quantity)
    /\ UNCHANGED <<iol_session, sources_status, detector, price_fetcher,
                   variation_analyzer, iol_integration>>
    /\ Quiet

\* IOLIntegration.get_portfolio for one position of cantidad certificates:
\* it raises without a session; a listed symbol has its ratio parsed
\* (KeyError without the key) and cantidad divided by it
get_portfolio(integration, info, cantidad) ==
    LET n == parse_ratio(info.ratio)
        f == [NoFetched EXCEPT !.op = "get_portfolio", !.info = info,
                               !.U = cantidad, !.session = integration.session]
    IN IF integration.session = None THEN [f EXCEPT !.raised = TRUE]
       ELSE IF ~info.found THEN [f EXCEPT !.none = FALSE]
       ELSE IF info.ratio.kind = "absent" \/ n.raised THEN [f EXCEPT !.raised = TRUE]
       ELSE Divides(f, cantidad, n.v)

GetPortfolio(info, cantidad) ==
    /\ fetched' = get_portfolio(iol_integration, info, cantidad)
    /\ UNCHANGED <<iol_session, sources_status, detector, price_fetcher,
                   variation_analyzer, iol_integration>>
    /\ Quiet

\* PriceFetcher.get_cedear_price_with_action_usd(symbol) is called: the
\* price, the conversion and then the rate
PfWithActionUsd(task, info, qresp) ==
    /\ frame[task].pc = "idle"
    /\ dframe[task].stage = "idle"
    /\ LET q == get_cedear_price(price_fetcher, info, qresp)
           n == get_cedear_conversion_info(info)
           d == [NoD EXCEPT !.stage = OpActionUsd, !.ars = q.ars, !.ratio = n.v,
                            !.route = q.route, !.info = info,
                            !.session = price_fetcher.iol_session]
       IN IF q.ars = 0 \/ n.raised
          THEN Settle(task, LeavesFetched(cache, sources_status, IdleFrame, NoRet,
                                          NoD, PfNone(task, d)))
          ELSE \E dresp \in FetcherAnswers :
                 Settle(task, PfAwaitRate(task, d, cache, sources_status,
                                          iol_session, now, dresp))
    /\ UNCHANGED <<now, iol_session, preferred_ccl_source, detector>>

\* PriceFetcher.get_theoretical_cedear_price(symbol, underlying_price) is
\* called: the conversion, the division by the ratio (ZeroDivisionError is
\* caught) and then the rate
PfTheoretical(task, info, underlying_price) ==
    /\ frame[task].pc = "idle"
    /\ dframe[task].stage = "idle"
    /\ LET n == get_cedear_conversion_info(info)
           d == [NoD EXCEPT !.stage = OpTheoretical, !.U = underlying_price,
                            !.ratio = n.v, !.info = info,
                            !.session = price_fetcher.iol_session]
           dv == [d EXCEPT !.divided = TRUE]
       IN IF n.raised
          THEN Settle(task, LeavesFetched(cache, sources_status, IdleFrame, NoRet,
                                          NoD, PfNone(task, d)))
          ELSE IF n.v = 0
          THEN Settle(task, LeavesFetched(cache, sources_status, IdleFrame, NoRet,
                                          NoD, PfNone(task, dv)))
          ELSE \E dresp \in FetcherAnswers :
                 Settle(task,
                        PfAwaitRate(task,
                                    [dv EXCEPT !.usd = FDiv(<<underlying_price, 1>>,
                                                            <<n.v, 1>>)],
                                    cache, sources_status, iol_session, now, dresp))
    /\ UNCHANGED <<now, iol_session, preferred_ccl_source, detector>>

\* analyze_portfolio_variations(symbols) is called: gather starts one
\* analyze_single_variation per symbol, each of which runs up to its await
\* of get_stock_price
VaBatchBegin(symbols) ==
    /\ ~batch.running
    /\ \A t \in Tasks : frame[t].pc = "idle" /\ dframe[t].stage = "idle"
    /\ batch' = [NoBatch EXCEPT !.running = TRUE, !.op = OpVariationBatch,
                                !.symbols = symbols]
    /\ dframe' = [t \in Callers |->
                    IF \E i \in 1..Len(symbols) : symbols[i] = t
                    THEN [NoD EXCEPT !.stage = OpVariation] ELSE NoD]
    /\ ret' = NoRet
    /\ opp' = NoOpp
    /\ fetched' = NoFetched
    /\ UNCHANGED finnhub
    /\ batch_out' = NoBatchOut
    /\ UNCHANGED <<now, iol_session, sources_status, preferred_ccl_source, cache,
                   frame, detector, price_fetcher, variation_analyzer, iol_integration>>

\* get_stock_price returns in analyze_single_variation: uresp is the answer
\* for the share of today; then the historical price, the certificate's
\* prices (qresp, yresp) and the two rates, hresp being BYMA's historical one
VaUnderlying(task, uresp, qresp, yresp, hresp) ==
    /\ dframe[task].stage = OpVariation
    /\ frame[task].pc = "idle"
    /\ LET U == get_stock_price(uresp)
           Y == get_historical_underlying_price
           cp == va_cedear_prices(variation_analyzer, qresp, yresp)
           d == [dframe[task] EXCEPT !.U = U, !.Y = Y, !.ars = cp.hoy,
                                     !.ars_ayer = cp.ayer,
                                     !.ccl_ayer = IF Invalid(hresp) THEN 0 ELSE hresp.v,
                                     !.session = variation_analyzer.iol_session]
           back(failed_at) ==
               Settle(task, LeavesFetched(cache, sources_status, IdleFrame, NoRet, NoD,
                                          VaNone(task, d, failed_at)))
       IN IF U = 0 THEN back("underlying")
          ELSE IF Y = 0 THEN back("historical")
          ELSE IF ~cp.ok THEN back("certificate")
          ELSE \E dresp \in Upstream :
                 LET o == CclBegin(None, cache, sources_status, iol_session, now, dresp)
                 IN Settle(task,
                           IF o.kind = "suspend"
                           THEN Leaves(o.cache, o.status,
                                       [o.fr EXCEPT !.caller = OpVariation], NoRet,
                                       d, NoOpp)
                           ELSE VaAfterRate(task, d, o, now))
    /\ UNCHANGED <<now, iol_session, preferred_ccl_source, detector>>

\* every analysis of the batch has returned: gather delivers the results in
\* the order of the symbols and the batch returns the analyses
VaBatchReturn ==
    /\ batch.running
    /\ batch.op = OpVariationBatch
    /\ \A i \in 1..Len(batch.symbols) : batch.results[batch.symbols[i]].done
    /\ UNCHANGED finnhub
    /\ batch_out' = [NoBatchOut EXCEPT
                        !.returned = TRUE, !.op = batch.op, !.symbols = batch.symbols,
                        !.results = batch.results,
                        !.analyses = Analyses(batch.symbols, batch.results)]
    /\ batch' = NoBatch
    /\ ret' = NoRet
    /\ opp' = NoOpp
    /\ fetched' = NoFetched
    /\ UNCHANGED <<now, iol_session, sources_status, preferred_ccl_source, cache,
                   frame, detector, dframe, price_fetcher, variation_analyzer,
                   iol_integration>>

Next ==
    \/ Tick
    \/ \E s \in Sessions \cup {None} : SetIolSession(s)
    \/ \E t \in Tasks, a \in PreferredArgs : GetCclRate(t, a)
    \/ \E t \in Tasks, r1 \in Upstream, r2 \in Upstream : Al30BondsWith(t, r1, r2)
    \/ \E t \in Tasks : Al30Resume(t)

Spec == Init /\ [][Next]_vars

\* the answers of the broker for a bond: a failure or a price
BondAnswers == {NoResp, [ok |-> TRUE, v |-> 1]}

\* three coroutines of one gather ask for the rate with the bond source
\* preferred, as the symbols of a portfolio do
NextStale ==
    \/ Tick
    \/ SetIolSession("session")
    \/ \E t \in Callers : GetCclRate(t, "ccl_al30")
    \/ \E t \in Callers, r \in BondAnswers : Al30BondsWith(t, r, r)
    \/ \E t \in Callers : Al30Resume(t)

SpecStale == Init /\ [][NextStale]_vars

\* what a step of the price service leaves alone
FinnhubFrame ==
    /\ ret' = NoRet
    /\ opp' = NoOpp
    /\ fetched' = NoFetched
    /\ batch_out' = NoBatchOut
    /\ UNCHANGED <<now, iol_session, sources_status, preferred_ccl_source, cache,
                   frame, detector, dframe, price_fetcher, variation_analyzer,
                   iol_integration, batch>>

\* the coroutine of get_stock_price(symbol) is run by the event loop for the
\* first time and reaches asyncio.sleep or requests.get; the loop runs a
\* coroutine only when its thread is not inside a blocking call
GetFinnhubPrice(task) ==
    /\ finnhub.busy = None
    /\ finnhub.pc[task] = "idle"
    /\ finnhub' = get_finnhub_price(finnhub, task, now)
    /\ FinnhubFrame

\* asyncio.sleep(wait_time) is over and the coroutine is resumed: it goes
\* to requests.get without reading the clock again
FinnhubWake(task) ==
    /\ finnhub.busy = None
    /\ finnhub.pc[task] = "sleep"
    /\ now >= finnhub.wake[task]
    /\ finnhub' = StartRequest(finnhub, task, now)
    /\ FinnhubFrame

\* the request of task is answered
FinnhubResponse(task, resp) ==
    /\ finnhub.pc[task] = "request"
    /\ finnhub' = finnhub_response(finnhub, task, resp, now)
    /\ FinnhubFrame

\* get_multiple_prices / detect_portfolio_arbitrages: one get_stock_price
\* per symbol, gathered
NextFinnhub ==
    \/ Tick
    \/ \E t \in Callers : GetFinnhubPrice(t)
    \/ \E t \in Callers : FinnhubWake(t)
    \/ \E t \in Callers, resp \in Upstream : FinnhubResponse(t, resp)

SpecFinnhub == Init /\ [][NextFinnhub]_vars

\* detect_portfolio_arbitrages(symbols, threshold_percentage) is called:
\* gather starts one detect_single_arbitrage per symbol, each of which runs
\* up to its await of get_stock_price
BatchBegin(symbols, thr) ==
    /\ ~batch.running
    /\ \A t \in Tasks : frame[t].pc = "idle" /\ dframe[t].stage = "idle"
    /\ batch' = [NoBatch EXCEPT !.running = TRUE, !.op = OpDetectBatch,
                                !.symbols = symbols]
    /\ dframe' = [t \in Callers |->
                    IF \E i \in 1..Len(symbols) : symbols[i] = t
                    THEN [NoD EXCEPT !.stage = "underlying", !.thr = thr]
                    ELSE NoD]
    /\ ret' = NoRet
    /\ opp' = NoOpp
    /\ fetched' = NoFetched
    /\ UNCHANGED finnhub
    /\ batch_out' = NoBatchOut
    /\ UNCHANGED <<now, iol_session, sources_status, preferred_ccl_source, cache,
                   frame, detector, price_fetcher, variation_analyzer, iol_integration>>

\* every detection of the batch has returned: gather delivers the results
\* in the order of the symbols and the batch returns the opportunities
BatchReturn ==
    /\ batch.running
    /\ \A i \in 1..Len(batch.symbols) : batch.results[batch.symbols[i]].done
    /\ UNCHANGED finnhub
    /\ batch_out' = [NoBatchOut EXCEPT
                        !.returned = TRUE, !.op = batch.op, !.symbols = batch.symbols,
                        !.results = batch.results,
                        !.opportunities = Opportunities(batch.symbols, batch.results)]
    /\ batch' = NoBatch
    /\ ret' = NoRet
    /\ opp' = NoOpp
    /\ fetched' = NoFetched
    /\ UNCHANGED <<now, iol_session, sources_status, preferred_ccl_source, cache,
                   frame, detector, dframe, price_fetcher, variation_analyzer,
                   iol_integration>>

\* the answers the detections of a batch meet: a failure or one price for
\* the share and for the certificate, an unlisted or a listed symbol
BatchUnderlying == {NoResp, [ok |-> TRUE, v |-> MaxPrice]}
BatchQuotes == {NoResp, [ok |-> TRUE, v |-> 1]}
BatchStore == {NotListed, Listed(Text(<<"1", ":", "1">>))}

\* A batch of detections.  The callers attach or detach the session before
\* they await the batch, so the session changes between batches only.
NextBatch ==
    \/ Tick
    \/ \E s \in Sessions \cup {None} : ~batch.running /\ SetIolSession(s)
    \/ \E s \in Sessions \cup {None} : ~batch.running /\ DetSetIolSession(s)
    \/ \E symbols \in SymbolLists, thr \in Thresholds : BatchBegin(symbols, thr)
    \/ \E t \in Tasks, uresp \in BatchUnderlying, info \in BatchStore,
          qresp \in BatchQuotes : batch.running /\ DetectUnderlying(t, uresp, info, qresp)
    \/ \E t \in Tasks, r1 \in Upstream, r2 \in Upstream : Al30BondsWith(t, r1, r2)
    \/ \E t \in Tasks : Al30Resume(t)
    \/ BatchReturn

SpecBatch == Init /\ [][NextBatch]_vars

\* The detector on top of the exchange-rate service.  SpecDetect follows
\* the detections of one task from call to return; the clock and the two
\* set_iol_session operations interleave at its suspension points.
DetectTasks == {"t1"}

NextDetect ==
    \/ Tick
    \/ \E s \in Sessions \cup {None} : SetIolSession(s)
    \/ \E s \in Sessions \cup {None} : DetSetIolSession(s)
    \/ \E t \in DetectTasks, thr \in Thresholds : DetectBegin(t, thr)
    \/ \E t \in DetectTasks, uresp \in Upstream, info \in DetectorStore,
          qresp \in Upstream : DetectUnderlying(t, uresp, info, qresp)
    \/ \E t \in Tasks, r1 \in Upstream, r2 \in Upstream : Al30BondsWith(t, r1, r2)
    \/ \E t \in Tasks : Al30Resume(t)

SpecDetect == Init /\ [][NextDetect]_vars

\* The consumers of the session and the conversions of the processor: the
\* session setters, the login, and the calls that return without awaiting
\* the exchange-rate service.
NextConsumers ==
    \/ \E s \in Sessions \cup {None} : SetIolSession(s)
    \/ \E s \in Sessions \cup {None} : DetSetIolSession(s)
    \/ \E s \in Sessions \cup {None} : PfSetIolSession(s)
    \/ \E s \in Sessions \cup {None} : VaSetIolSession(s)
    \/ \E ok \in BOOLEAN : Authenticate(ok)
    \/ \E t \in DetectTasks, info \in ProcessorStore, qresp \in Upstream,
          bresp \in FetcherQuotes : PfGetCedearPrice(t, info, qresp, bresp)
    \/ \E value \in RatioTexts \cup OtherRatioValues \cup {FortyNine} : ParseRatio(value)
    \/ \E info \in ProcessorStore, quantity \in 1..MaxPrice :
         ConvertCedearToUnderlying(info, quantity)
    \/ \E info \in ProcessorStore, cantidad \in 1..MaxPrice : GetPortfolio(info, cantidad)

SpecConsumers == Init /\ [][NextConsumers]_vars

\* The price fetcher on top of the exchange-rate service: the calls of one
\* task from call to return; the clock and the set_iol_session operations
\* of the two services interleave at its suspension points.
NextFetch ==
    \/ Tick
    \/ \E s \in Sessions \cup {None} : SetIolSession(s)
    \/ \E s \in Sessions \cup {None} : PfSetIolSession(s)
    \/ \E t \in DetectTasks, info \in FetcherStore, qresp \in FetcherQuotes :
         PfWithActionUsd(t, info, qresp)
    \/ \E t \in DetectTasks, info \in FetcherStore, U \in 1..MaxPrice :
         PfTheoretical(t, info, U)
    \/ \E t \in Tasks, r1 \in Upstream, r2 \in Upstream : Al30BondsWith(t, r1, r2)
    \/ \E t \in Tasks : Al30Resume(t)

SpecFetch == Init /\ [][NextFetch]_vars

\* the variations an analysis can hold: the halves of -MaxPrice..MaxPrice
VariationValues == {Div(n, 2) : n \in (-MaxPrice)..MaxPrice}

\* get_strongest_factor() is called on an analysis with the three variations
StrongestFactor(var_cedear, var_underlying, var_ccl) ==
    /\ fetched' = [NoFetched EXCEPT
                     !.op = "get_strongest_factor", !.none = FALSE,
                     !.variations = <<var_cedear, var_underlying, var_ccl>>,
                     !.factor = get_strongest_factor(var_cedear, var_underlying, var_ccl)]
    /\ UNCHANGED <<iol_session, sources_status, detector, price_fetcher,
                   variation_analyzer, iol_integration>>
    /\ Quiet

\* the answers the analyses of a batch meet
VaQuotes == {NoResp, [ok |-> TRUE, v |-> 1], [ok |-> TRUE, v |-> MaxPrice]}

\* The variation analyzer: batches of analyses and the session setters of
\* the analyzer and of the exchange-rate service.
NextVariation ==
    \/ \E s \in Sessions \cup {None} : SetIolSession(s)
    \/ \E s \in Sessions \cup {None} : VaSetIolSession(s)
    \/ \E symbols \in SymbolLists : VaBatchBegin(symbols)
    \/ \E t \in Tasks, uresp \in BatchUnderlying, qresp \in VaQuotes, yresp \in VaQuotes,
          hresp \in VaQuotes : VaUnderlying(t, uresp, qresp, yresp, hresp)
    \/ VaBatchReturn

SpecVariation == Init /\ [][NextVariation]_vars

\* the dominant factor of an analysis, for every triple of variations
NextFactor ==
    \E a \in VariationValues, b \in VariationValues, c \in VariationValues :
       StrongestFactor(a, b, c)

SpecFactor == Init /\ [][NextFactor]_vars

\* ------------------------------------------------------------ properties

Returned == ret.task # None
Other(source) == IF source = "dolarapi_ccl" THEN "ccl_al30" ELSE "dolarapi_ccl"
LogSources(log) == [i \in 1..Len(log) |-> log[i].src]
InSeq(x, seq) == \E i \in 1..Len(seq) : seq[i] = x
\* position of x in seq, 0 if absent
Pos(x, seq) == IF InSeq(x, seq) THEN CHOOSE i \in 1..Len(seq) : seq[i] = x ELSE 0

\* the case of C1 in the call that has just returned: no fresh cache entry,
\* A preferred, every fetch of A failed, B was fetched and succeeded
C1_Case(A, B) ==
    /\ Returned
    /\ ret.res.path # "cache"
    /\ ret.res.preferred = A
    /\ \A i \in 1..Len(ret.hist.log) : ret.hist.log[i].src = A => ~ret.hist.log[i].ok
    /\ \E i \in 1..Len(ret.hist.log) : ret.hist.log[i].src = B /\ ret.hist.log[i].ok

C1_Returns(B) ==
    /\ ret.res.kind = "quote"
    /\ ret.res.source = B
    /\ \E i \in 1..Len(ret.hist.log) :
          ret.hist.log[i].src = B /\ ret.res.rate = ret.hist.log[i].rate
    /\ ret.res.fallback_used

\* C1 as stated: for every preferred source A and every session state, A
\* failing and B succeeding gives B's value, attempted_sources = [A, B] and
\* fallback_used = true.
C1_AsStated ==
    \A A \in CclSources :
        C1_Case(A, Other(A)) =>
            C1_Returns(Other(A)) /\ ret.res.attempted = <<A, Other(A)>>

\* C1 amended: the call returns B's value with fallback_used = true;
\* attempted_sources is [A, B] when A was marked available at its turn, and
\* [B] when A was marked unavailable (no session for ccl_al30, or an earlier
\* failure) and therefore skipped.
C1_FallbackOrder ==
    \A A \in CclSources :
        C1_Case(A, Other(A)) =>
            /\ C1_Returns(Other(A))
            /\ ret.res.attempted =
                 IF InSeq(A, ret.hist.skipped) THEN <<Other(A)>> ELSE <<A, Other(A)>>

C1_Witness ==
    /\ C1_Case("ccl_al30", "dolarapi_ccl")
    /\ ret.res.attempted = <<"ccl_al30", "dolarapi_ccl">>

\* C2 as stated: when no live source answered and the cache held an entry
\* for some source when the call began (expired or not), the call returns a
\* quote flagged cache_fallback instead of None.
C2_StaleLastResort ==
    (Returned /\ ret.res.path \notin {"cache", "live"} /\ ret.hist.cachedAtCall # {})
        => (ret.res.kind = "quote" /\ ret.res.cache_fallback)

\* the first source of the priority order whose entry is fresh at time t
FirstFresh(c, sources, t) ==
    LET fresh == {i \in 1..Len(sources) :
                    c[sources[i]].present /\ t - c[sources[i]].ts <= CacheTtl}
    IN IF fresh = {} THEN None
       ELSE sources[CHOOSE i \in fresh : \A j \in fresh : i <= j]

\* a direct call of get_ccl_rate by task begins in this step (it returns
\* in the same step or stops at the gather), and its preferred source
DirectCallBegins(task) ==
    /\ frame[task].pc = "idle"
    /\ \/ (ret'.task = task /\ ret'.caller = "direct")
       \/ (frame'[task].pc = "al30_gather" /\ frame'[task].caller = "direct")
PreferredOfCall(task) ==
    IF ret'.task = task THEN ret'.res.preferred ELSE frame'[task].preferred

\* C3 as stated: an entry stored at t0 is served without any fetch at
\* t < t0 + T, and is no longer served from the cache at t >= t0 + T.
C3_AsStated ==
    [][\A task \in Tasks, s \in CclSources :
         (DirectCallBegins(task) /\ cache[s].present) =>
            /\ (now < cache[s].ts + CacheTtl) =>
                  (ret'.task = task /\ ret'.res.path = "cache" /\ ret'.hist.log = <<>>)
            /\ (now >= cache[s].ts + CacheTtl) =>
                  ~(ret'.task = task /\ ret'.res.path = "cache" /\ ret'.res.source = s)]_vars

\* C3 amended: an entry stored at t0 is fresh up to and including
\* t = t0 + T: a call then returns from the cache without any fetch, serving
\* the first fresh entry in priority order with its stored rate.  At
\* t > t0 + T the entry is never served as a cache hit: the lookup evicts it
\* and, when no entry is fresh, the call goes on to the live loop.
C3_CacheFreshness ==
    [][\A task \in Tasks, s \in CclSources :
         (DirectCallBegins(task) /\ cache[s].present) =>
            LET first == FirstFresh(cache, SourcesFor(PreferredOfCall(task)), now)
            IN /\ (now <= cache[s].ts + CacheTtl) =>
                     /\ ret'.task = task
                     /\ ret'.res.path = "cache"
                     /\ ret'.hist.log = <<>>
                     /\ ret'.res.source = first
                     /\ ret'.res.rate = cache[first].rate
                     /\ cache'[first] = cache[first]
               /\ (now > cache[s].ts + CacheTtl) =>
                     /\ ~(ret'.task = task /\ ret'.res.path = "cache" /\ ret'.res.source = s)
                     /\ (first = None => ~(ret'.task = task /\ ret'.res.path = "cache"))
                     /\ (first = None => cache'[s] # cache[s])]_vars

\* a cache hit at exactly t0 + T
C3_Witness ==
    /\ Returned
    /\ ret.res.path = "cache"
    /\ cache[ret.res.source].present
    /\ ret.returnedAt = cache[ret.res.source].ts + CacheTtl

\* every source before position n of the priority order was skipped or
\* fetched without success
TriedUpTo(h, n) ==
    \A i \in 1..n :
        \/ InSeq(h.sources[i], h.skipped)
        \/ \E j \in 1..Len(h.log) : h.log[j].src = h.sources[i] /\ ~h.log[j].ok

C4_State ==
    /\ (Returned /\ ret.res.kind = "quote") => RatePositive(ret.res.rate)
    /\ \A s \in CclSources : cache[s].present => RatePositive(cache[s].rate)
    /\ \A i \in 1..Len(ret.hist.log) :
          LET e == ret.hist.log[i] IN
          (e.answer \in {"error", "nonpositive"}) =>
              /\ ~e.ok
              /\ ~(ret.res.path = "live" /\ ret.res.source = e.src)
    /\ (Returned /\ ret.res.path = "live") =>
          TriedUpTo(ret.hist, Pos(ret.res.source, ret.hist.sources) - 1)
    /\ (Returned /\ ret.res.path \in {"stale", "none"}) =>
          TriedUpTo(ret.hist, Len(ret.hist.sources))

\* C4: every returned quote and every cached rate is > 0; a non-positive or
\* missing aggregator value or bond price makes the source fail for the call,
\* and the resolver goes on with the next source: a live answer comes only
\* after every earlier source was skipped or failed, and the call falls to
\* the stale path or to None only after every source was skipped or failed.
C4_PositiveRate ==
    /\ C4_State
    /\ \A t \in Tasks : frame[t].bonds.ok => frame[t].bonds.valid

\* the aggregator answered a non-positive value and the bond source answered
C4_Witness ==
    /\ Returned
    /\ ret.res.path = "live"
    /\ ret.res.source = "ccl_al30"
    /\ Len(ret.hist.log) = 2
    /\ ret.hist.log[1].answer = "nonpositive"

\* seq keeps the order of the priority list
InPriorityOrder(seq, sources) ==
    \A i \in 1..Len(seq), j \in 1..Len(seq) :
        i < j => (InSeq(seq[i], sources) /\ InSeq(seq[j], sources)
                  /\ Pos(seq[i], sources) < Pos(seq[j], sources))

\* C5: for every returned quote, attempted_sources is exactly the sequence
\* of sources whose fetch was invoked in the call, in priority order; a quote
\* served from the fresh cache entry of s has attempted_sources = [s], no
\* fetch, and fallback_used = (s != preferred source).
C5_AttemptedSources ==
    (Returned /\ ret.res.kind = "quote") =>
        IF ret.res.path = "cache"
        THEN /\ ret.res.attempted = <<ret.res.source>>
             /\ ret.hist.log = <<>>
             /\ ret.res.fallback_used = (ret.res.source # ret.res.preferred)
        ELSE /\ ret.res.attempted = LogSources(ret.hist.log)
             /\ InPriorityOrder(ret.res.attempted, ret.hist.sources)
             /\ \A i \in 1..Len(ret.hist.sources) :
                   (i < Pos(ret.res.source, ret.hist.sources) \/ ret.res.path = "stale")
                      => (InSeq(ret.hist.sources[i], ret.res.attempted)
                          \/ InSeq(ret.hist.sources[i], ret.hist.skipped))

\* a live quote from the second source after the first one was fetched
C5_Witness ==
    /\ Returned
    /\ ret.res.path = "live"
    /\ Len(ret.res.attempted) = 2
    /\ ret.res.source = ret.res.attempted[2]

\* C6 as stated: None is returned exactly when no source answered in the
\* call and the cache holds no entry for any source.
C6_NoneExactly ==
    Returned =>
        /\ (ret.res.kind = "None") =>
              (ret.res.path = "none" /\ ret.hist.cachedAtCall = {})
        /\ (ret.res.path \notin {"cache", "live"} /\ ret.hist.cachedAtCall = {}
              /\ \A s \in CclSources : ~cache[s].present)
              => ret.res.kind = "None"

\* C7: initially ccl_al30 is unavailable and the aggregator sources are
\* available; a set_iol_session(s) step stores s, makes ccl_al30 available
\* exactly when s is not None, leaves the cache, the other sources'
\* availability and the calls in flight unchanged, and applying it again
\* with the same argument changes nothing.
C7_SetSession ==
    /\ (~sources_status["ccl_al30"] /\ sources_status["dolarapi_ccl"]
        /\ sources_status["dolarapi_mep"] /\ iol_session = None)
    /\ [][\A s \in Sessions \cup {None} : SetIolSession(s) =>
            /\ iol_session' = s
            /\ sources_status'["ccl_al30"] = (s # None)
            /\ \A k \in AllSources \ {"ccl_al30"} : sources_status'[k] = sources_status[k]
            /\ cache' = cache
            /\ frame' = frame
            /\ preferred_ccl_source' = preferred_ccl_source
            /\ LET st == [iol_session |-> iol_session', sources_status |-> sources_status']
               IN set_iol_session(st, s) = st]_vars

\* the session was detached while an entry is cached and the aggregator is
\* marked unavailable
C7_Witness ==
    /\ iol_session = None
    /\ ~sources_status["ccl_al30"]
    /\ ~sources_status["dolarapi_ccl"]
    /\ cache["ccl_al30"].present

AllLogs == {frame[t].hist.log : t \in Tasks} \cup {ret.hist.log}

\* C8: every invocation of _get_ccl_al30 made by get_ccl_rate happens with a
\* session attached.
C8_BondNeedsSession ==
    \A log \in AllLogs : \A i \in 1..Len(log) :
        log[i].src = "ccl_al30" => log[i].session # None

\* the bond source is being fetched as the fallback of the aggregator
C8_Witness ==
    \E t \in Tasks :
        /\ frame[t].pc = "al30_gather"
        /\ frame[t].attempted = <<"dolarapi_ccl", "ccl_al30">>

\* |U - usd| / U compared with thr, over the integers
AtOrAboveThreshold(U, usd, thr) ==
    Abs(U * usd[2] - usd[1]) * thr[2] >= thr[1] * usd[2] * U
AtThreshold(U, usd, thr) ==
    Abs(U * usd[2] - usd[1]) * thr[2] = thr[1] * usd[2] * U

\* C9: once the underlying price and the implied share price are resolved,
\* detect_single_arbitrage returns an ArbitrageOpportunity if and only if
\* difference_percentage >= threshold; at equality an opportunity is
\* returned, strictly below the threshold None is returned.
C9_ThresholdTest ==
    (opp.task # None /\ opp.resolved) =>
        /\ opp.kind \in {"opportunity", "None"}
        /\ (opp.kind = "opportunity") <=> AtOrAboveThreshold(opp.U, opp.usd, opp.thr)
        /\ opp.difference_percentage = DifferencePercentage(opp.difference_usd, opp.U)

\* an opportunity whose difference_percentage equals the threshold
C9_Witness ==
    /\ opp.task # None
    /\ opp.resolved
    /\ opp.kind = "opportunity"
    /\ AtThreshold(opp.U, opp.usd, opp.thr)

\* C10: the action of every ArbitrageOpportunity follows the sign of
\* difference_usd alone: positive gives BUY_CEDEAR, negative gives
\* BUY_UNDERLYING.
C10_Recommendation ==
    (opp.task # None /\ opp.kind = "opportunity") =>
        /\ opp.difference_usd[1] > 0 => opp.action = "BUY_CEDEAR"
        /\ opp.difference_usd[1] < 0 => opp.action = "BUY_UNDERLYING"
        /\ opp.difference_usd[2] > 0

\* an opportunity with the certificate route dearer than the share
C10_Witness ==
    /\ opp.task # None
    /\ opp.kind = "opportunity"
    /\ opp.difference_usd[1] < 0
    /\ opp.action = "BUY_UNDERLYING"

\* the fractions a and b are the same number
SameNumber(a, b) == a[1] * b[2] = b[1] * a[2]

\* the worked example: U = 100, P = 10000, ratio "5:1", R = 1000
ExampleUsd == ShareViaCedearUsd(10000, parse_ratio(Text(<<"5", ":", "1">>)).v, <<1000, 1>>)
ExampleDiff == DifferenceUsd(100, ExampleUsd)
ExamplePct == DifferencePercentage(ExampleDiff, 100)

\* C11: with local price P, rate R, ratio numerator N and underlying price U
\* resolved, detect_single_arbitrage computes implied share USD = (P / R) * N,
\* difference_usd = U - implied and difference_percentage = |difference_usd| / U;
\* U = 100, P = 10000, "5:1", R = 1000 give 50, 50 and 0.50, BUY_CEDEAR at
\* the default threshold 0.005 and nothing at threshold 0.60.
C11_Arithmetic ==
    /\ (opp.task # None /\ opp.resolved) =>
          /\ opp.usd[1] * opp.rate[1] = opp.ars * opp.ratio * opp.rate[2] * opp.usd[2]
          /\ opp.difference_usd[1] * opp.usd[2]
                = (opp.U * opp.usd[2] - opp.usd[1]) * opp.difference_usd[2]
          /\ opp.difference_percentage[1] * opp.difference_usd[2] * opp.U
                = Abs(opp.difference_usd[1]) * opp.difference_percentage[2]
    /\ SameNumber(ExampleUsd, <<50, 1>>)
    /\ SameNumber(ExampleDiff, <<50, 1>>)
    /\ SameNumber(ExamplePct, <<1, 2>>)
    /\ ExceedsThreshold(ExamplePct, <<1, 200>>)
    /\ Recommendation(ExampleDiff) = "BUY_CEDEAR"
    /\ ~ExceedsThreshold(ExamplePct, <<3, 5>>)

\* a comparison made with ratio 2 and a rate other than 1
C11_Witness ==
    /\ opp.task # None
    /\ opp.resolved
    /\ opp.ratio = 2
    /\ opp.rate = <<2, 1>>
    /\ opp.U = 2
    /\ opp.ars = 1

\* the results of the detections in the order of the symbols
ResultsInOrder(o) == [i \in 1..Len(o.symbols) |-> o.results[o.symbols[i]]]
IsOpportunity(r) == r.kind = "opportunity"

\* the returned list is the non-null results of the detections, in input order
C12_BatchOutput ==
    batch_out.returned =>
        /\ batch_out.opportunities = SelectSeq(ResultsInOrder(batch_out), IsOpportunity)
        /\ \A i \in 1..Len(batch_out.symbols) : batch_out.results[batch_out.symbols[i]].done
        /\ \A i \in 1..Len(batch_out.opportunities) :
              \E j \in 1..Len(batch_out.symbols) :
                  batch_out.opportunities[i].symbol = batch_out.symbols[j]

\* a detection that fails leaves the exchange-rate service and the other
\* detections of the batch as they were, and its own result is None
C12_FailureIsolated ==
    \A t \in Tasks :
        (batch.running /\ opp'.task = t /\ opp'.failed_at \in {"underlying", "certificate"}) =>
            /\ cache' = cache
            /\ sources_status' = sources_status
            /\ batch'.running
            /\ batch'.results[t] = [Pending EXCEPT !.done = TRUE]
            /\ \A u \in Tasks \ {t} :
                  /\ frame'[u] = frame[u]
                  /\ dframe'[u] = dframe[u]
                  /\ batch'.results[u] = batch.results[u]

C13_TheoreticalFallback ==
    (opp.task # None /\ opp.kind = "None" /\ ~opp.resolved) =>
        (opp.failed_at = "underlying" \/ ~opp.theoretical)

\* the four consumers hold the same session, and so the same mode
SessionsAgree ==
    /\ price_fetcher.iol_session = iol_session
    /\ detector.iol_session = iol_session
    /\ variation_analyzer.iol_session = iol_session
    /\ price_fetcher.mode = detector.mode
    /\ variation_analyzer.mode = detector.mode

\* C14: after ArbitrageDetector.set_iol_session(s), and after a login of
\* IOLIntegration.authenticate that establishes a session, the price
\* fetcher, the exchange-rate service, the detector and the variation
\* analyzer all hold the same session, so none of them is in full mode while
\* another is in limited mode.
C14_SessionConsistent ==
    [][((\E s \in Sessions \cup {None} : DetSetIolSession(s)) \/ Authenticate(TRUE))
         => SessionsAgree']_vars

\* C15: the mode of the price fetcher is "full" exactly when its session is
\* not None, after construction and after every set_iol_session, and
\* get_cedear_price takes the broker's real-time quote if and only if a
\* session is attached when it is called; otherwise it reads the BYMA
\* snapshot.
C15_RouteBySession ==
    /\ (price_fetcher.mode = "full") <=> (price_fetcher.iol_session # None)
    /\ fetched.op = "get_cedear_price" =>
         /\ fetched.session = price_fetcher.iol_session
         /\ (fetched.route = "iol") <=> (fetched.session # None)
         /\ (fetched.route = "byma") <=> (fetched.session = None)

C15_Witness ==
    /\ fetched.op = "get_cedear_price"
    /\ fetched.route = "iol"
    /\ fetched.session # None
    /\ ~fetched.none

\* a call of one of the two pricing methods of the fetcher has returned
PfReturned == fetched.op \in {OpActionUsd, OpTheoretical}

\* C16: get_cedear_price_with_action_usd and get_theoretical_cedear_price
\* never raise to the caller, and their result is (None, None) or a pair of
\* two positive numbers: never a pair with a zero, nor with one component
\* only.
C16_NoneOrPositivePair ==
    PfReturned =>
        /\ ~fetched.raised
        /\ fetched.none \/ (fetched.first[1] > 0 /\ fetched.second[1] > 0)

\* C17: for every underlying price U, numerator N > 0 and rate R > 0,
\* get_theoretical_cedear_price returns the pair ((U / N) * R, U): the
\* implied share price is U exactly, so its difference to the underlying
\* price is 0.
C17_TheoreticalPair ==
    (fetched.op = OpTheoretical /\ ~fetched.none /\ fetched.ratio > 0) =>
        /\ fetched.first = FMul(FDiv(<<fetched.U, 1>>, <<fetched.ratio, 1>>),
                                Fl(fetched.rate))
        /\ fetched.second = <<fetched.U, 1>>
        /\ DifferenceUsd(fetched.U, fetched.second) = <<0, 1>>

\* the ratio values of the claim: texts "N:1" with a number N, and malformed
\* values (a text without a number before the colon, the empty text, None)
NumericRatio(value) ==
    /\ value.kind = "text"
    /\ ParseFloat(BeforeColon(value.chars)).ok
    /\ \E i \in 1..Len(value.chars) : value.chars[i] = ":"
Malformed(value) ==
    value.kind # "text" \/ ~ParseFloat(BeforeColon(value.chars)).ok

\* C18: parse_ratio returns N for every text "N:1" with a number N ("2:1"
\* gives 2.0, "1:1" gives 1.0), and for every malformed input (a text that
\* is no number, the empty text, None) it returns 1.0 and raises nothing.
C18_ParseRatio ==
    /\ parse_ratio(Text(<<"2", ":", "1">>)) = [raised |-> FALSE, v |-> 2]
    /\ parse_ratio(Text(<<"1", ":", "1">>)) = [raised |-> FALSE, v |-> 1]
    /\ fetched.op = "parse_ratio" =>
         /\ ~fetched.raised
         /\ NumericRatio(fetched.info.ratio) =>
              fetched.ratio = ParseFloat(BeforeColon(fetched.info.ratio.chars)).v
         /\ Malformed(fetched.info.ratio) => fetched.ratio = 1

\* C19: for every ratio text the store can hold, "0:1" and negative
\* numerators included, no path (get_theoretical_cedear_price,
\* convert_cedear_to_underlying, get_portfolio) divides by a parsed
\* numerator that is <= 0.
C19_NoDivisionByNonPositive == fetched.divided => fetched.divisor > 0

\* C20: whenever the exchange-rate service returns no quote,
\* detect_single_arbitrage and its price helpers yield no price and no
\* opportunity for the symbol; no returned value was computed with, or
\* carries, a constant rate.
C20_NoFabricatedRate ==
    opp.task # None =>
        /\ opp.resolved => ~opp.rate_fallback
        /\ opp.kind = "opportunity" => ~opp.rate_fallback /\ ~opp.ccl_fallback

IsAnalysis(r) == r.kind = "analysis"

\* an analysis without a historical price is None and carries no variation
C21_Single ==
    (fetched.op = OpVariation /\ fetched.Y = 0) =>
        /\ fetched.none
        /\ ~fetched.raised
        /\ fetched.variations = <<NoRate, NoRate, NoRate>>

\* the batch returns the analyses that are not None, in input order, and
\* leaves out every symbol whose analysis is None
C21_BatchOutput ==
    (batch_out.returned /\ batch_out.op = OpVariationBatch) =>
        /\ batch_out.analyses = SelectSeq(ResultsInOrder(batch_out), IsAnalysis)
        /\ \A i \in 1..Len(batch_out.symbols) :
              LET r == batch_out.results[batch_out.symbols[i]] IN
              /\ r.done
              /\ r.kind = "None" =>
                   \A j \in 1..Len(batch_out.analyses) :
                      batch_out.analyses[j].symbol # batch_out.symbols[i]
              /\ r.kind = "analysis" =>
                   \E j \in 1..Len(batch_out.analyses) : batch_out.analyses[j] = r

\* an analysis that returns None leaves the exchange-rate service and the
\* other analyses of the batch as they were
C21_Isolated ==
    \A t \in Tasks :
        (batch.running /\ fetched'.op = OpVariation /\ fetched'.task = t
           /\ fetched'.failed_at = "historical") =>
            /\ cache' = cache
            /\ sources_status' = sources_status
            /\ batch'.running
            /\ batch'.results[t] = [Pending EXCEPT !.done = TRUE]
            /\ \A u \in Tasks \ {t} :
                  /\ frame'[u] = frame[u]
                  /\ dframe'[u] = dframe[u]
                  /\ batch'.results[u] = batch.results[u]

\* C21: when the historical price of the underlying is unavailable,
\* analyze_single_variation returns None with no partial analysis, and
\* analyze_portfolio_variations leaves that symbol out, returns the analyses
\* of the other symbols and lets no exception escape.
C21_HistoricalUnavailable ==
    [](C21_Single /\ C21_BatchOutput) /\ [][C21_Isolated]_vars

\* a batch of two symbols has returned; the analysis of the second stopped
\* at the historical price and the symbol is not in the output
C21_Witness ==
    /\ batch_out.returned
    /\ batch_out.op = OpVariationBatch
    /\ Len(batch_out.symbols) = 2
    /\ batch_out.results[batch_out.symbols[2]].done
    /\ batch_out.results[batch_out.symbols[2]].kind = "None"
    /\ \A j \in 1..Len(batch_out.analyses) :
          batch_out.analyses[j].symbol # batch_out.symbols[2]

\* the place of a factor in the fixed order CEDEAR, Subyacente, CCL
FactorIndex(factor) ==
    IF factor = "CEDEAR" THEN 1 ELSE IF factor = "Subyacente" THEN 2 ELSE 3

\* C22: get_strongest_factor returns a factor whose variation has the
\* largest absolute value of the three, negative values being compared by
\* magnitude; of several factors tied for the maximum it returns the first
\* in the order CEDEAR, Subyacente, CCL.
C22_StrongestFactor ==
    fetched.op = "get_strongest_factor" =>
        LET v == fetched.variations
            k == FactorIndex(fetched.factor)
        IN /\ fetched.factor \in {"CEDEAR", "Subyacente", "CCL"}
           /\ \A i \in 1..3 : ~AbsGreater(v[i], v[k])
           /\ \A i \in 1..(k - 1) : AbsGreater(v[k], v[i])

\* the largest magnitude belongs to a negative variation and is shared by a
\* later factor: the first of the two is returned
C22_Witness ==
    /\ fetched.op = "get_strongest_factor"
    /\ fetched.factor = "Subyacente"
    /\ fetched.variations[2][1] < 0
    /\ fetched.variations[3] = <<-fetched.variations[2][1], fetched.variations[2][2]>>
    /\ AbsGreater(fetched.variations[2], fetched.variations[1])
    /\ fetched.variations[1][1] > 0

\* C23: when the broker's real-time quote fails for a symbol while a session
\* is attached, the certificate's price is taken from the BYMA end-of-day
\* feed instead of a failure being returned.
C23_FallbackToByma ==
    (fetched.op = "get_cedear_price" /\ fetched.session # None /\ fetched.iol = 0
       /\ fetched.byma > 0 /\ ~get_cedear_conversion_info(fetched.info).raised) =>
        /\ ~fetched.none
        /\ fetched.first = <<fetched.byma, 1>>

\* C24: no lookup removes an entry of the cache: an entry that is stored
\* stays stored, with its rate and timestamp, until a live success of its own
\* source overwrites it with a rate stamped at the current time.
C24_ReadersNeverMutate ==
    [][\A s \in CclSources :
          cache[s].present =>
              \/ cache'[s] = cache[s]
              \/ cache'[s].present /\ cache'[s].ts = now]_vars

\* C25: a call handles its sources one at a time in priority order, cache
\* entry first and fetch second, so a call that answers from the cache entry
\* of its second source has before that invoked the fetch of its first
\* source, if that source is available.
C25_OneSourceAtATime ==
    (Returned /\ ret.res.path = "cache" /\ Len(ret.hist.sources) = 2
       /\ ret.res.source = ret.hist.sources[2]
       /\ sources_status[ret.hist.sources[1]]) =>
        InSeq(ret.hist.sources[1], LogSources(ret.hist.log))

\* C26: the quote a call returns from the expired-cache loop is the entry
\* stored most recently: no entry of the cache has a later timestamp than
\* the entry of the source the quote names.
C26_MostRecentStale ==
    (Returned /\ ret.res.path = "stale") =>
        \A s \in CclSources :
            cache[s].present => cache[s].ts <= cache[ret.res.source].ts

\* C28: any two requests sent to Finnhub start at least finnhub_min_interval
\* apart, whichever get_stock_price tasks sent them.
C28_RateLimited ==
    \A i, j \in 1..Len(finnhub.started) :
        i < j => finnhub.started[j].at - finnhub.started[i].at >= finnhub_min_interval

\* C27: while the request of one symbol's task is outstanding, the task of
\* every other symbol that has a step to take can take it.
C27_OthersProceed ==
    \A t \in Callers, u \in Callers :
        (finnhub.pc[t] = "request" /\ finnhub.pc[u] = "idle") =>
            ENABLED GetFinnhubPrice(u)

\* the get_ccl_rate call of task runs in this step, from its first line or
\* from the gather, and what it has fetched and listed after the step
CallRuns(task) ==
    /\ frame[task].pc \in {"idle", "al30_ready"}
    /\ \/ ret'.task = task
       \/ (frame[task].pc = "idle" /\ frame'[task].pc = "al30_gather")
LogAfter(task) == IF ret'.task = task THEN ret'.hist.log ELSE frame'[task].hist.log
AttemptedAfter(task) ==
    IF ret'.task = task THEN ret'.res.attempted ELSE frame'[task].attempted

\* every fetch that failed in the call that has just returned left its
\* source unavailable
C29_FailureMarks ==
    Returned =>
        \A i \in 1..Len(ret.hist.log) :
            (~ret.hist.log[i].ok /\ ~ret.hist.log[i].pending) =>
                ~sources_status[ret.hist.log[i].src]

\* nothing re-enables the aggregator, and only set_iol_session with a
\* session re-enables the bond source
C29_NoRecovery ==
    /\ ~sources_status["dolarapi_ccl"] => ~sources_status'["dolarapi_ccl"]
    /\ (~sources_status["ccl_al30"] /\ sources_status'["ccl_al30"]) =>
          (iol_session' # None /\ SetIolSession(iol_session'))

\* a source that is unavailable when a call runs is not fetched by it
C29_NotFetched ==
    \A task \in Tasks :
        CallRuns(task) =>
            \A i \in (Len(frame[task].hist.log) + 1)..Len(LogAfter(task)) :
                sources_status[LogAfter(task)[i].src]

C30_SameRate ==
    (opp.task # None /\ opp.kind = "opportunity") => opp.ccl_rate = opp.rate

====
